---- MODULE Spec2Model ----
(***************************************************************************)
(* Model of the randomgen bit generators MT19937, ThreeFry32 and           *)
(* Xoshiro256StarStar (the randomgen .pyx files): seed, state, jump and   *)
(* advance.                                                               *)
(*                                                                         *)
(* Machine words are scaled down: a uint32_t is WordBits bits wide, a      *)
(* uint64_t 2*WordBits and the 128-bit counter 4*WordBits, all arithmetic  *)
(* being taken modulo the scaled width.  The MT19937 key holds MT_N words  *)
(* instead of 624.  The C kernels (src/threefry32, src/mt19937,            *)
(* src/xoshiro256starstar, src/splitmix64), entropy.pyx and common.pyx are *)
(* not part of the sources at hand; they are modelled from the             *)
(* specification text, at the scaled width.                                *)
(***************************************************************************)
EXTENDS Integers, Sequences, FiniteSets, TLC

\* ------------------------------------------------------------------ bounds
\* Width, in bits, of the scaled uint32_t.
WordBits == 2
\* Number of key words of the scaled MT19937 state (624 in the program).
MT_N == 3
\* Largest number of operations in one behaviour, every input being offered.
MaxSteps == 2
\* Largest number of operations in one behaviour of the runs that keep the logs.
MaxRun == 4
\* Largest number of draws recorded after a seeding.
MaxLog == 2
\* next_double of the generator behind the legacy sampler yields k / DoubleSteps,
\* k in 0..DoubleSteps-1.
DoubleSteps == 4
\* Largest number of pairs of uniforms one legacy_gauss call is followed through.
MaxPairs == 2
\* Largest number of legacy calls in one behaviour.
MaxCalls == 3
\* Largest n of random_raw(n).
MaxBatch == 2
\* Largest number of direct calls of a function slot beside the random_raw calls.
MaxSlots == 1
\* The doubles one sampler call may draw.
MaxDraws == 4
\* The most doubles one random_poisson call may draw, and the greatest count it
\* returns.
MaxPoisson == 1

\* ------------------------------------------------------- program constants
THREEFRY_BUFFER_SIZE == 4

\* ------------------------------------------------------------ machine words
Pow2(n) == 2 ^ n

M32 == Pow2(WordBits)
M64 == Pow2(2 * WordBits)
M128 == Pow2(4 * WordBits)
Bits64 == 2 * WordBits

RECURSIVE Xor(_, _)
Xor(a, b) ==
  IF a = 0 THEN b
  ELSE IF b = 0 THEN a
  ELSE (((a % 2) + (b % 2)) % 2) + 2 * Xor(a \div 2, b \div 2)

Shr(x, k) == x \div Pow2(k)

Rotl(x, k, bits) ==
  LET r == k % bits
  IN  ((x * Pow2(r)) % Pow2(bits)) + (x \div Pow2(bits - r))

\* ---------------------------------------------------------------- SplitMix64
\* One step of SplitMix64 on the scaled 64-bit word: the new state and the output.
splitmix64_next(state) ==
  LET s1 == (state + (31765 % M64)) % M64
      z1 == (Xor(s1, Shr(s1, Bits64 - 1)) * ((58809 % M64))) % M64
      z2 == (Xor(z1, Shr(z1, Bits64 - 2)) * ((4587 % M64))) % M64
  IN  [state |-> s1, out |-> Xor(z2, Shr(z2, Bits64 \div 2))]

\* ------------------------------------------------------------ ThreeFry-4x32
TF_Rounds == 20
TF_Rot == << <<10, 26>>, <<11, 21>>, <<13, 27>>, <<23, 5>>,
             <<6, 20>>, <<17, 11>>, <<25, 10>>, <<18, 20>> >>

TF_KeySchedule(key) ==
  key \o << Xor(Xor(Xor(Xor(466688986 % M32, key[1]), key[2]), key[3]), key[4]) >>

\* Key injection number s (s = 0 before round 0, then after every 4th round).
TF_Inject(x, ks, s) ==
  [i \in 1..4 |->
     (x[i] + ks[((s + i - 1) % 5) + 1] + (IF i = 4 THEN s ELSE 0)) % M32]

\* One round r (0-based): two mixes, then the word permutation.
TF_Mix(x, r) ==
  LET rc == TF_Rot[(r % 8) + 1]
      a0 == (x[1] + x[2]) % M32
      a1 == Xor(Rotl(x[2], rc[1], WordBits), a0)
      a2 == (x[3] + x[4]) % M32
      a3 == Xor(Rotl(x[4], rc[2], WordBits), a2)
  IN  << a0, a3, a2, a1 >>

RECURSIVE TF_Run(_, _, _)
TF_Run(x, ks, r) ==
  IF r = TF_Rounds THEN x
  ELSE \* z, the words after round r, is bound through a one-element set: it
       \* is computed once, before the next round
       CHOOSE out \in
         { TF_Run(z, ks, r + 1) :
             z \in { LET y == TF_Mix(x, r)
                     IN  IF (r + 1) % 4 = 0 THEN TF_Inject(y, ks, (r + 1) \div 4)
                         ELSE y } } : TRUE

\* The block function: four output words from one counter and the key.
threefry4x32(ctr, key) ==
  CHOOSE out \in
    { TF_Run(TF_Inject(ctr, ks, 0), ks, 0) : ks \in { TF_KeySchedule(key) } } : TRUE

Words32 == 0..(M32 - 1)

\* Counter increment by one, word 0 first, propagating the carry.
RECURSIVE TF_IncFrom(_, _)
TF_IncFrom(ctr, i) ==
  IF i > 4 THEN ctr
  ELSE LET v == (ctr[i] + 1) % M32
       IN  IF v = 0 THEN TF_IncFrom([ctr EXCEPT ![i] = v], i + 1)
           ELSE [ctr EXCEPT ![i] = v]

\* threefry32_next32: the set of outcomes [st, out].  A buffer_pos below 0
\* reads outside the buffer: the word read is then any word.
threefry32_next32(st) ==
  IF st.buffer_pos < THREEFRY_BUFFER_SIZE
  THEN IF st.buffer_pos >= 0
       THEN { [st  |-> [st EXCEPT !.buffer_pos = st.buffer_pos + 1],
               out |-> st.buffer[st.buffer_pos + 1]] }
       ELSE { [st  |-> [st EXCEPT !.buffer_pos = st.buffer_pos + 1],
               out |-> w] : w \in Words32 }
  ELSE { [st  |-> [st EXCEPT !.ctr = c, !.buffer = b, !.buffer_pos = 1],
          out |-> b[1]] :
           c \in { TF_IncFrom(st.ctr, 1) },
           b \in { threefry4x32(TF_IncFrom(st.ctr, 1), st.key) } }

\* Two 32-bit draws in a row: the outcomes [st, a, b].
TF_two(st) ==
  UNION { { [st |-> r2.st, a |-> r1.out, b |-> r2.out] :
              r2 \in threefry32_next32(r1.st) } : r1 \in threefry32_next32(st) }

\* threefry32_next64: the first draw is the high word.
threefry32_next64(st) ==
  { [st |-> r.st, out |-> r.a * M32 + r.b] : r \in TF_two(st) }

\* Numerator of a double built from two 32-bit draws a, b: at 32 bits
\* (a >> 5) * 2^26 + (b >> 6), over 2^53.
DblShiftA == (5 * WordBits) \div 32
DblShiftB == (6 * WordBits) \div 32
\* A conversion that gives the first word one bit too many.
DoubleOf32_wide(a, b) ==
  Shr(a, DblShiftA) * Pow2(WordBits - DblShiftB + 1) + Shr(b, DblShiftB)

DoubleOf32(a, b) == Shr(a, DblShiftA) * Pow2(WordBits - DblShiftB) + Shr(b, DblShiftB)
\* Numerator of a double built from one 64-bit draw: (u >> 11), over 2^53.
DblShift64 == (11 * Bits64) \div 64
DoubleOf64(u) == Shr(u, DblShift64)

threefry32_next_double(st) ==
  { [st |-> r.st, out |-> DoubleOf32(r.a, r.b)] : r \in TF_two(st) }

\* threefry32_advance: counter := counter + step, word by word with carry,
\* modulo 2^128.
RECURSIVE TF_AddFrom(_, _, _, _)
TF_AddFrom(ctr, step, i, carry) ==
  IF i > 4 THEN ctr
  ELSE LET t == ctr[i] + step[i] + carry
       IN  TF_AddFrom([ctr EXCEPT ![i] = t % M32], step, i + 1, t \div M32)

threefry32_advance(step, st) == [st EXCEPT !.ctr = TF_AddFrom(st.ctr, step, 1, 0)]

\* --------------------------------------------------------------- xoshiro256**
xoshiro256starstar_next64(st) ==
  LET s   == st.s
      res == (Rotl((s[2] * 5) % M64, 7, Bits64) * 9) % M64
      t   == (s[2] * Pow2(17 % Bits64)) % M64
      s2a == Xor(s[3], s[1])
      s3a == Xor(s[4], s[2])
      s1b == Xor(s[2], s2a)
      s0b == Xor(s[1], s3a)
      s2b == Xor(s2a, t)
      s3b == Rotl(s3a, 45, Bits64)
  IN  [st |-> [st EXCEPT !.s = << s0b, s1b, s2b, s3b >>], out |-> res]

\* xoshiro256starstar_next32: low half first, high half cached.
xoshiro256starstar_next32(st) ==
  IF st.has_uint32 # 0
  THEN [st |-> [st EXCEPT !.has_uint32 = 0], out |-> st.uinteger]
  ELSE LET r == xoshiro256starstar_next64(st)
       IN  [st  |-> [r.st EXCEPT !.has_uint32 = 1, !.uinteger = r.out \div M32],
            out |-> r.out % M32]

XO_JUMP == << 2746 % M64, 14636 % M64, 51626 % M64, 26140 % M64 >>

\* xoshiro256starstar_jump: for every bit of the jump polynomial, in order,
\* accumulate the state when the bit is set, then step the generator.
RECURSIVE XO_JumpBits(_, _, _, _)
XO_JumpBits(st, acc, i, b) ==
  IF i > 4 THEN [st EXCEPT !.s = acc]
  ELSE IF b = Bits64 THEN XO_JumpBits(st, acc, i + 1, 0)
  ELSE LET set == (Shr(XO_JUMP[i], b) % 2) = 1
           a2  == IF set THEN << Xor(acc[1], st.s[1]), Xor(acc[2], st.s[2]),
                              Xor(acc[3], st.s[3]), Xor(acc[4], st.s[4]) >>
                  ELSE acc
           nx  == xoshiro256starstar_next64(st).st
       IN  \* the test only orders the evaluation: both values are computed
           \* before the next bit is looked at
           IF a2[1] >= 0 /\ nx.s[1] >= 0 THEN XO_JumpBits(nx, a2, i, b + 1) ELSE st

xoshiro256starstar_jump(st) == XO_JumpBits(st, << 0, 0, 0, 0 >>, 1, 0)

\* ------------------------------------------------------------------- MT19937
\* Shift distance of the scaled word standing for the 30 of the 32-bit one.
MT_InitShift == WordBits - 1
MT_UPPER == Pow2(WordBits - 1)
\* Offset of the recurrence (397 in the program).
MT_M == 1
MT_MATRIX_A == 45279 % M32

\* init_genrand: key[0] = seed, key[i] = 1812433253 * (key[i-1] ^ (key[i-1] >> 30)) + i.
RECURSIVE MT_InitFrom(_, _)
MT_InitFrom(key, i) ==
  IF i > MT_N THEN key
  ELSE LET p == key[i - 1]
           v == (((1812433253 % M32) * Xor(p, Shr(p, MT_InitShift))) + (i - 1)) % M32
       IN  MT_InitFrom([key EXCEPT ![i] = v], i + 1)

mt19937_seed(seed) ==
  [key |-> MT_InitFrom([i \in 1..MT_N |-> IF i = 1 THEN seed % M32 ELSE 0], 2),
   pos |-> MT_N]

Max(a, b) == IF a > b THEN a ELSE b

\* First loop of init_by_array (i, j 0-based, k iterations left).
RECURSIVE MT_ByArray1(_, _, _, _, _)
MT_ByArray1(mt, init_key, i, j, k) ==
  IF k = 0 THEN [mt |-> mt, i |-> i]
  ELSE LET p   == mt[i]
           v   == (Xor(mt[i + 1], (Xor(p, Shr(p, MT_InitShift)) * (1664525 % M32)) % M32)
                   + init_key[j + 1] + j) % M32
           mt1 == [mt EXCEPT ![i + 1] = v]
           i1  == i + 1
           mt2 == IF i1 >= MT_N THEN [mt1 EXCEPT ![1] = mt1[MT_N]] ELSE mt1
           i2  == IF i1 >= MT_N THEN 1 ELSE i1
           j1  == IF j + 1 >= Len(init_key) THEN 0 ELSE j + 1
       IN  MT_ByArray1(mt2, init_key, i2, j1, k - 1)

\* Second loop of init_by_array.
RECURSIVE MT_ByArray2(_, _, _)
MT_ByArray2(mt, i, k) ==
  IF k = 0 THEN mt
  ELSE LET p   == mt[i]
           v   == (Xor(mt[i + 1], (Xor(p, Shr(p, MT_InitShift)) * (1566083941 % M32)) % M32)
                   + M32 - i) % M32
           mt1 == [mt EXCEPT ![i + 1] = v]
           i1  == i + 1
           mt2 == IF i1 >= MT_N THEN [mt1 EXCEPT ![1] = mt1[MT_N]] ELSE mt1
           i2  == IF i1 >= MT_N THEN 1 ELSE i1
       IN  MT_ByArray2(mt2, i2, k - 1)

mt19937_init_by_array(init_key) ==
  LET g  == mt19937_seed(19650218 % M32).key
      r1 == MT_ByArray1(g, init_key, 1, 0, Max(MT_N, Len(init_key)))
      r2 == MT_ByArray2(r1.mt, r1.i, MT_N - 1)
  IN  [key |-> [r2 EXCEPT ![1] = MT_UPPER], pos |-> MT_N]

\* The twist: regenerate all MT_N words in place.
RECURSIVE MT_GenFrom(_, _)
MT_GenFrom(key, k) ==
  IF k > MT_N THEN key
  ELSE \* the key with word k regenerated is bound through a one-element set:
       \* it is computed once, before word k + 1
       CHOOSE out \in
         { MT_GenFrom(nk, k + 1) :
             nk \in { LET nxt == key[(k % MT_N) + 1]
                          far == key[((k - 1 + MT_M) % MT_N) + 1]
                          y   == (key[k] - (key[k] % MT_UPPER)) + (nxt % MT_UPPER)
                          v   == Xor(Xor(far, Shr(y, 1)),
                                     IF y % 2 = 1 THEN MT_MATRIX_A ELSE 0)
                      IN  [key EXCEPT ![k] = v] } } : TRUE

RECURSIVE And(_, _)
And(a, b) ==
  IF a = 0 \/ b = 0 THEN 0
  ELSE ((a % 2) * (b % 2)) + 2 * And(a \div 2, b \div 2)

\* Tempering: the four shift-and-mask steps, shifts and masks scaled to the word.
MT_Temper(y) ==
  CHOOSE out \in
    { Xor(y3, Shr(y3, (18 * WordBits) \div 32 + 1)) :
        y3 \in { Xor(y2, And((y2 * Pow2((15 * WordBits) \div 32 + 1)) % M32, 61382 % M32)) :
          y2 \in { Xor(y1, And((y1 * Pow2((7 * WordBits) \div 32 + 1)) % M32, 22144 % M32)) :
            y1 \in { Xor(y, Shr(y, (11 * WordBits) \div 32 + 1)) } } } } : TRUE

\* mt19937_next32: the set of outcomes [st, out].  A pos outside 0..MT_N
\* reads outside the key: the word read is then any word.
mt19937_next32(st) ==
  IF st.pos = MT_N
  THEN { [st |-> [key |-> k, pos |-> 1], out |-> MT_Temper(k[1])] :
           k \in { MT_GenFrom(st.key, 1) } }
  ELSE IF st.pos >= 0 /\ st.pos < MT_N
  THEN { [st |-> [st EXCEPT !.pos = st.pos + 1], out |-> MT_Temper(st.key[st.pos + 1])] }
  ELSE { [st |-> [st EXCEPT !.pos = st.pos + 1], out |-> w] : w \in Words32 }

MT_two(st) ==
  UNION { { [st |-> r2.st, a |-> r1.out, b |-> r2.out] :
              r2 \in mt19937_next32(r1.st) } : r1 \in mt19937_next32(st) }

mt19937_next64(st) == { [st |-> r.st, out |-> r.a * M32 + r.b] : r \in MT_two(st) }

mt19937_next_double(st) ==
  { [st |-> r.st, out |-> DoubleOf32(r.a, r.b)] : r \in MT_two(st) }

\* ------------------------------------------------------- Python-level values
\* An argument is None, an integer, a list of integers or an array of integers.
None == [t |-> "none", v |-> << >>]
PyInt(n) == [t |-> "int", v |-> << n >>]
PyList(q) == [t |-> "list", v |-> q]
PyArray(q) == [t |-> "array", v |-> q]

\* Little-endian words of a non-negative integer.
RECURSIVE WordsOf(_, _, _)
WordsOf(v, n, m) == IF n = 0 THEN << >> ELSE << v % m >> \o WordsOf(v \div m, n - 1, m)

\* common.int_to_array(value, name, 128, 32) for an integer value: the four
\* words, or a range error when the value is negative or does not fit.
int_to_array(value) ==
  IF value.v[1] < 0 \/ value.v[1] >= M128
  THEN [err |-> "range", words |-> << >>]
  ELSE [err |-> "none", words |-> WordsOf(value.v[1], 4, M32)]

\* n successive SplitMix64 outputs from a state.
RECURSIVE SplitMixFill(_, _)
SplitMixFill(state, n) ==
  IF n = 0 THEN << >>
  ELSE LET r == splitmix64_next(state)
       IN  << r.out >> \o SplitMixFill(r.state, n - 1)

\* Array form: the SplitMix64 state starts at 0 and is XORed with seed[i]
\* before component i is produced, while the seed array lasts; max(n, len)
\* components are produced, written round robin into the n slots.
RECURSIVE SeedArrayFill(_, _, _, _, _)
SeedArrayFill(out, state, q, i, n) ==
  IF i >= Max(n, Len(q)) THEN out
  ELSE LET s0 == IF i < Len(q) THEN Xor(state, q[i + 1]) ELSE state
           r  == splitmix64_next(s0)
       IN  SeedArrayFill([out EXCEPT ![(i % n) + 1] = r.out], r.state, q, i + 1, n)

\* entropy.seed_by_array(seed, n): n 64-bit words.  An array is squeezed
\* first, so that a one-element array is a scalar; a list is not.
seed_by_array(seed, n) ==
  LET scalar == seed.t = "int" \/ (seed.t = "array" /\ Len(seed.v) = 1)
      bad    == \E i \in 1..Len(seed.v) : seed.v[i] < 0 \/ seed.v[i] >= M64
  IN  IF bad THEN [err |-> "range", words |-> << >>]
      ELSE IF scalar THEN [err |-> "none", words |-> SplitMixFill(seed.v[1], n)]
      ELSE [err |-> "none",
            words |-> SeedArrayFill([i \in 1..n |-> 0], 0, seed.v, 0, n)]

\* ndarray.view(np.uint32) of 64-bit words: low half, then high half, of each.
RECURSIVE View32(_)
View32(q) ==
  IF q = << >> THEN << >>
  ELSE << Head(q) % M32, Head(q) \div M32 >> \o View32(Tail(q))

\* ndarray.view(np.uint64) of 32-bit words.
RECURSIVE View64(_)
View64(q) ==
  IF Len(q) < 2 THEN << >>
  ELSE << q[1] + M32 * q[2] >> \o View64(Tail(Tail(q)))

\* The entropy source as the seed methods use it: random_entropy(n), and on a
\* RuntimeError random_entropy(n, 'fallback').  An outcome says which of the
\* two calls fail and which words the successful one returns.
EntropyOutcomes ==
  { [primary |-> TRUE, fallback |-> TRUE, e |-> 1],
    [primary |-> TRUE, fallback |-> TRUE, e |-> 2],
    [primary |-> TRUE, fallback |-> FALSE, e |-> 1],
    [primary |-> FALSE, fallback |-> TRUE, e |-> 1],
    [primary |-> FALSE, fallback |-> FALSE, e |-> 1] }

\* The words random_entropy(n) and random_entropy(n, 'fallback') return when
\* they do not fail.
PrimaryWords(ent, n) == [i \in 1..n |-> (ent.e * i) % M32]
FallbackWords(ent, n) == [i \in 1..n |-> (ent.e * i + 1) % M32]

EntropyWords(ent, n) == IF ent.primary THEN PrimaryWords(ent, n) ELSE FallbackWords(ent, n)

\* A seed method that asks the fallback first and the primary source only
\* when the fallback fails.
random_entropy_fallback_first(ent, n) ==
  IF ent.fallback THEN [err |-> "none", words |-> FallbackWords(ent, n)]
  ELSE IF ent.primary THEN [err |-> "none", words |-> PrimaryWords(ent, n)]
  ELSE [err |-> "entropy", words |-> << >>]

\* try: random_entropy(n); except RuntimeError: random_entropy(n, 'fallback').
random_entropy(ent, n) ==
  IF ent.primary THEN [err |-> "none", words |-> PrimaryWords(ent, n)]
  ELSE IF ent.fallback THEN [err |-> "none", words |-> FallbackWords(ent, n)]
  ELSE [err |-> "entropy", words |-> << >>]

\* ------------------------------------------------------------------ ThreeFry32
TF_Name == "ThreeFry32"
XO_Name == "Xoshiro256StarStar"
MT_Name == "MT19937"

\* A reset that puts the position at the start of the zeroed buffer.
TF_reset_state_variables_to_start(st) ==
  [st EXCEPT !.buffer_pos = 0,
             !.buffer = [i \in 1..THREEFRY_BUFFER_SIZE |-> 0]]

\* A reset that leaves the buffer and its position as they are.
TF_reset_state_variables_skipped(st) == st

\* ThreeFry32._reset_state_variables
TF_reset_state_variables(st) ==
  [st EXCEPT !.buffer_pos = THREEFRY_BUFFER_SIZE,
             !.buffer = [i \in 1..THREEFRY_BUFFER_SIZE |-> 0]]

\* ThreeFry32.seed once seed and key are known not to be both given.
TF_SeedKeyCounter(st, seed, counter, key, ent) ==
  LET kr == IF key.t = "none"
            THEN IF seed.t = "none"
                 THEN random_entropy(ent, 4)
                 ELSE LET r == seed_by_array(seed, 2)
                      IN  [err |-> r.err, words |-> View32(r.words)]
            ELSE int_to_array(key)
  IN  IF kr.err # "none"
      THEN [st |-> st, err |-> kr.err]
      ELSE LET st1 == [st EXCEPT !.key = kr.words]
               cr  == int_to_array(IF counter.t = "none" THEN PyInt(0) ELSE counter)
           IN  IF cr.err # "none"
               THEN [st |-> st1, err |-> cr.err]
               ELSE [st  |-> TF_reset_state_variables([st1 EXCEPT !.ctr = cr.words]),
                     err |-> "none"]

\* A seed() without the test that seed and key are not both given.
TF_seed_unchecked(st, seed, counter, key, ent) ==
  TF_SeedKeyCounter(st, seed, counter, key, ent)

\* ThreeFry32.seed(seed, counter, key): the state it leaves and the error
\* it raises ("none" when it returns).
TF_seed(st, seed, counter, key, ent) ==
  IF seed.t # "none" /\ key.t # "none"
  THEN [st |-> st, err |-> "conflict"]
  ELSE TF_SeedKeyCounter(st, seed, counter, key, ent)

\* A getter that reports a fresh buffer whatever has been consumed.
TF_state_without_position(st) ==
  [kind |-> "dict", brng |-> TF_Name, tlen |-> 0,
   has |-> {"state", "counter", "key", "buffer", "buffer_pos"},
   counter |-> st.ctr, key |-> st.key, buffer |-> st.buffer,
   buffer_pos |-> THREEFRY_BUFFER_SIZE]

\* ThreeFry32.state (getter)
TF_state(st) ==
  [kind |-> "dict", brng |-> TF_Name, tlen |-> 0,
   has |-> {"state", "counter", "key", "buffer", "buffer_pos"},
   counter |-> st.ctr, key |-> st.key, buffer |-> st.buffer,
   buffer_pos |-> st.buffer_pos]

\* value[...][i] converted to an unsigned C integer below `bound`: the item,
\* or the error of a missing field, a short array or an item out of range.
ReadItem(present, q, i, bound) ==
  IF ~present THEN [err |-> "key", v |-> 0]
  ELSE IF i > Len(q) THEN [err |-> "index", v |-> 0]
  ELSE IF q[i] < 0 \/ q[i] >= bound THEN [err |-> "overflow", v |-> 0]
  ELSE [err |-> "none", v |-> q[i]]

\* First loop of the setter: counter word i, then key word i, for i = 0..3.
RECURSIVE TF_SetCtrKey(_, _, _)
TF_SetCtrKey(st, value, i) ==
  IF i > 4 THEN [st |-> st, err |-> "none"]
  ELSE LET c == ReadItem({"state", "counter"} \subseteq value.has, value.counter, i, M32)
       IN  IF c.err # "none" THEN [st |-> st, err |-> c.err]
           ELSE LET st1 == [st EXCEPT !.ctr[i] = c.v]
                    k   == ReadItem({"state", "key"} \subseteq value.has, value.key, i, M32)
                IN  IF k.err # "none" THEN [st |-> st1, err |-> k.err]
                    ELSE TF_SetCtrKey([st1 EXCEPT !.key[i] = k.v], value, i + 1)

\* Second loop of the setter: the buffer words.
RECURSIVE TF_SetBuffer(_, _, _)
TF_SetBuffer(st, value, i) ==
  IF i > THREEFRY_BUFFER_SIZE THEN [st |-> st, err |-> "none"]
  ELSE LET b == ReadItem("buffer" \in value.has, value.buffer, i, M32)
       IN  IF b.err # "none" THEN [st |-> st, err |-> b.err]
           ELSE TF_SetBuffer([st EXCEPT !.buffer[i] = b.v], value, i + 1)

\* ThreeFry32.state (setter)
TF_set_state(st, value) ==
  IF value.kind # "dict" THEN [st |-> st, err |-> "type"]
  ELSE IF value.brng # TF_Name THEN [st |-> st, err |-> "tag"]
  ELSE LET r1 == TF_SetCtrKey(st, value, 1)
       IN  IF r1.err # "none" THEN r1
           ELSE LET r2 == TF_SetBuffer(r1.st, value, 1)
                IN  IF r2.err # "none" THEN r2
                    ELSE IF "buffer_pos" \notin value.has
                    THEN [st |-> r2.st, err |-> "key"]
                    ELSE [st  |-> [r2.st EXCEPT !.buffer_pos = value.buffer_pos],
                          err |-> "none"]

\* An advance that counts delta in 32-bit words, four to a block.
TF_advance_by_words(st, delta) ==
  LET d == int_to_array(delta)
  IN  IF d.err # "none" THEN [st |-> st, err |-> d.err]
      ELSE [st |-> TF_reset_state_variables(
                     threefry32_advance(int_to_array(PyInt(delta.v[1] \div 4)).words, st)),
            err |-> "none"]

\* An advance that adds only the two low words of delta.
TF_advance_low_words(st, delta) ==
  LET d == int_to_array(delta)
  IN  IF d.err # "none" THEN [st |-> st, err |-> d.err]
      ELSE [st |-> TF_reset_state_variables(
                     threefry32_advance(<< d.words[1], d.words[2], 0, 0 >>, st)),
            err |-> "none"]

\* ThreeFry32.advance(delta)
TF_advance(st, delta) ==
  LET d == int_to_array(delta)
  IN  IF d.err # "none" THEN [st |-> st, err |-> d.err]
      ELSE [st |-> TF_reset_state_variables(threefry32_advance(d.words, st)),
            err |-> "none"]

\* A jump that moves by one unit of 2^64 whatever iter is.
TF_jump_single(st, iter) == TF_advance(st, PyInt(M64))

\* ThreeFry32.jump(iter)
TF_jump(st, iter) == TF_advance(st, PyInt(iter * M64))

\* ---------------------------------------------------------- Xoshiro256StarStar
\* A reset that keeps the cached half-word.
XO_reset_state_variables_skipped(st) == st

\* Xoshiro256StarStar._reset_state_variables
XO_reset_state_variables(st) == [st EXCEPT !.has_uint32 = 0, !.uinteger = 0]

\* Xoshiro256StarStar.seed(seed)
XO_seed(st, seed, ent) ==
  LET r == IF seed.t = "none"
           THEN LET e == random_entropy(ent, 8)
                IN  [err |-> e.err, words |-> View64(e.words)]
           ELSE seed_by_array(seed, 4)
  IN  IF r.err # "none" THEN [st |-> st, err |-> r.err]
      ELSE [st  |-> XO_reset_state_variables(
                      [st EXCEPT !.s = << r.words[1], r.words[2], r.words[3], r.words[4] >>]),
            err |-> "none"]

RECURSIVE XO_JumpTimes(_, _)
XO_JumpTimes(st, n) ==
  IF n <= 0 THEN st
  ELSE LET j == xoshiro256starstar_jump(st)
       IN  IF j.s[1] >= 0 THEN XO_JumpTimes(j, n - 1) ELSE st

\* A jump that runs the jump function once whatever iter is.
XO_jump_single(st, iter) ==
  [st |-> XO_reset_state_variables(xoshiro256starstar_jump(st)), err |-> "none"]

\* Xoshiro256StarStar.jump(iter)
XO_jump(st, iter) ==
  [st |-> XO_reset_state_variables(XO_JumpTimes(st, iter)), err |-> "none"]

\* A snapshot that carries fields for the cached deviate.
XO_state_with_gauss(st) ==
  [kind |-> "dict", brng |-> XO_Name, tlen |-> 0,
   has |-> {"s", "has_uint32", "uinteger", "has_gauss", "gauss"},
   s |-> st.s, has_uint32 |-> st.has_uint32, uinteger |-> st.uinteger]

\* Xoshiro256StarStar.state (getter)
XO_state(st) ==
  [kind |-> "dict", brng |-> XO_Name, tlen |-> 0,
   has |-> {"s", "has_uint32", "uinteger"},
   s |-> st.s, has_uint32 |-> st.has_uint32, uinteger |-> st.uinteger]

RECURSIVE XO_SetS(_, _, _)
XO_SetS(st, value, i) ==
  IF i > 4 THEN [st |-> st, err |-> "none"]
  ELSE LET w == ReadItem("s" \in value.has, value.s, i, M64)
       IN  IF w.err # "none" THEN [st |-> st, err |-> w.err]
           ELSE XO_SetS([st EXCEPT !.s[i] = w.v], value, i + 1)

\* Xoshiro256StarStar.state (setter)
XO_set_state(st, value) ==
  IF value.kind # "dict" THEN [st |-> st, err |-> "type"]
  ELSE IF value.brng # XO_Name THEN [st |-> st, err |-> "tag"]
  ELSE LET r1 == XO_SetS(st, value, 1)
       IN  IF r1.err # "none" THEN r1
           ELSE IF "has_uint32" \notin value.has THEN [st |-> r1.st, err |-> "key"]
           ELSE LET st2 == [r1.st EXCEPT !.has_uint32 = value.has_uint32]
                    u   == ReadItem("uinteger" \in value.has, << value.uinteger >>, 1, M32)
                IN  IF u.err # "none" THEN [st |-> st2, err |-> u.err]
                    ELSE [st |-> [st2 EXCEPT !.uinteger = u.v], err |-> "none"]

\* ----------------------------------------------------------------- MT19937
\* np.asarray(seed).astype(np.int64, casting='safe') succeeds: every item is
\* an int64, the array made of the list being otherwise of a type (uint64,
\* object) that has no safe cast to int64 and the cast raising TypeError.
FitsInt64(q) == \A i \in 1..Len(q) : q[i] >= -(M64 \div 2) /\ q[i] < M64 \div 2

\* A seed() that does not squeeze arrays: every list or array takes the
\* init_by_array path.
MT_seed_unsqueezed(st, seed, ent) ==
  IF seed.t = "none"
  THEN LET e == random_entropy(ent, 1)
       IN  IF e.err # "none" THEN [st |-> st, err |-> e.err]
           ELSE [st |-> mt19937_seed(e.words[1]), err |-> "none"]
  ELSE IF seed.t = "int"
  THEN IF seed.v[1] > M32 - 1 \/ seed.v[1] < 0
       THEN [st |-> st, err |-> "range"]
       ELSE [st |-> mt19937_seed(seed.v[1]), err |-> "none"]
  ELSE IF \E i \in 1..Len(seed.v) : seed.v[i] > M32 - 1 \/ seed.v[i] < 0
       THEN [st |-> st, err |-> "range"]
       ELSE [st |-> mt19937_init_by_array(seed.v), err |-> "none"]

\* MT19937.seed(seed)
MT_seed(st, seed, ent) ==
  IF seed.t = "none"
  THEN LET e == random_entropy(ent, 1)
       IN  IF e.err # "none" THEN [st |-> st, err |-> e.err]
           ELSE [st |-> mt19937_seed(e.words[1]), err |-> "none"]
  ELSE IF seed.t = "int" \/ (seed.t = "array" /\ Len(seed.v) = 1)
  THEN \* operator.index succeeds: the scalar path
       IF seed.v[1] > M32 - 1 \/ seed.v[1] < 0
       THEN [st |-> st, err |-> "range"]
       ELSE [st |-> mt19937_seed(seed.v[1]), err |-> "none"]
  ELSE \* operator.index raises TypeError: the array path
       IF ~FitsInt64(seed.v)
       THEN [st |-> st, err |-> "cast"]
       ELSE IF \E i \in 1..Len(seed.v) : seed.v[i] > M32 - 1 \/ seed.v[i] < 0
       THEN [st |-> st, err |-> "range"]
       ELSE [st |-> mt19937_init_by_array(seed.v), err |-> "none"]

\* MT19937.state (getter)
MT_state(st) ==
  [kind |-> "dict", brng |-> MT_Name, tlen |-> 0,
   has |-> {"state", "key", "pos"}, key |-> st.key, pos |-> st.pos]

RECURSIVE MT_SetKey(_, _, _)
MT_SetKey(st, value, i) ==
  IF i > MT_N THEN [st |-> st, err |-> "none"]
  ELSE LET w == ReadItem(TRUE, value.key, i, M32)
       IN  IF w.err # "none" THEN [st |-> st, err |-> w.err]
           ELSE MT_SetKey([st EXCEPT !.key[i] = w.v], value, i + 1)

\* The setter once the value is known to be a dict or a converted tuple.
MT_SetDict(st, value) ==
  IF value.kind # "dict" THEN [st |-> st, err |-> "type"]
  ELSE IF value.brng # MT_Name THEN [st |-> st, err |-> "tag"]
  ELSE IF ~({"state", "key"} \subseteq value.has) THEN [st |-> st, err |-> "key"]
  ELSE LET r1 == MT_SetKey(st, value, 1)
       IN  IF r1.err # "none" THEN r1
           ELSE IF "pos" \notin value.has THEN [st |-> r1.st, err |-> "key"]
           ELSE [st |-> [r1.st EXCEPT !.pos = value.pos], err |-> "none"]

\* A setter that knows no legacy tuple.
MT_set_state_dict_only(st, value) == MT_SetDict(st, value)

\* MT19937.state (setter): a tuple is a legacy state (name, key, pos, ...).
MT_set_state(st, value) ==
  IF value.kind = "tuple"
  THEN IF value.brng # "MT19937" \/ value.tlen \notin {3, 5}
       THEN [st |-> st, err |-> "legacy"]
       ELSE MT_SetDict(st, [value EXCEPT !.kind = "dict", !.brng = "MT19937",
                                         !.has = {"state", "key", "pos"}])
  ELSE MT_SetDict(st, value)

\* ------------------------------------------------------------- the interface
Classes == {MT_Name, TF_Name, XO_Name}
DrawKinds == {"uint32", "uint64", "double"}

\* Function slots whose next_uint32 of Xoshiro256StarStar takes a new 64-bit
\* output at every call and keeps no half-word.
NextDraw_uncached(c, st, kind) ==
  IF c = TF_Name
  THEN CASE kind = "uint32" -> threefry32_next32(st)
         [] kind = "uint64" -> threefry32_next64(st)
         [] OTHER           -> threefry32_next_double(st)
  ELSE IF c = MT_Name
  THEN CASE kind = "uint32" -> mt19937_next32(st)
         [] kind = "uint64" -> mt19937_next64(st)
         [] OTHER           -> mt19937_next_double(st)
  ELSE CASE kind = "uint32" -> LET r == xoshiro256starstar_next64(st)
                               IN  { [st |-> r.st, out |-> r.out % M32] }
         [] kind = "uint64" -> { xoshiro256starstar_next64(st) }
         [] OTHER           -> LET r == xoshiro256starstar_next64(st)
                               IN  { [st |-> r.st, out |-> DoubleOf64(r.out)] }

\* Function slots whose next_uint64 of the 32-bit generators puts the first
\* draw in the low word.
NextDraw_low_word_first(c, st, kind) ==
  IF c = TF_Name
  THEN CASE kind = "uint32" -> threefry32_next32(st)
         [] kind = "uint64" -> { [st |-> r.st, out |-> r.b * M32 + r.a] : r \in TF_two(st) }
         [] OTHER           -> threefry32_next_double(st)
  ELSE IF c = MT_Name
  THEN CASE kind = "uint32" -> mt19937_next32(st)
         [] kind = "uint64" -> { [st |-> r.st, out |-> r.b * M32 + r.a] : r \in MT_two(st) }
         [] OTHER           -> mt19937_next_double(st)
  ELSE CASE kind = "uint32" -> { xoshiro256starstar_next32(st) }
         [] kind = "uint64" -> { xoshiro256starstar_next64(st) }
         [] OTHER           -> LET r == xoshiro256starstar_next64(st)
                               IN  { [st |-> r.st, out |-> DoubleOf64(r.out)] }

\* The function slot next_uint32 / next_uint64 / next_double of a handle of
\* class c: the set of outcomes [st, out].
\* Slots whose 64-bit and double draws on Xoshiro256StarStar drop the cached
\* half-word.
NextDraw_wide_clears(c, st, kind) ==
  IF c = XO_Name /\ kind # "uint32"
  THEN LET r == xoshiro256starstar_next64(st)
       IN  { [st  |-> XO_reset_state_variables(r.st),
              out |-> IF kind = "uint64" THEN r.out ELSE DoubleOf64(r.out)] }
  ELSE IF c = XO_Name THEN { xoshiro256starstar_next32(st) }
  ELSE IF c = TF_Name
  THEN IF kind = "uint32" THEN threefry32_next32(st)
       ELSE IF kind = "uint64" THEN threefry32_next64(st)
       ELSE threefry32_next_double(st)
  ELSE IF kind = "uint32" THEN mt19937_next32(st)
       ELSE IF kind = "uint64" THEN mt19937_next64(st)
       ELSE mt19937_next_double(st)

NextDraw(c, st, kind) ==
  IF c = TF_Name
  THEN CASE kind = "uint32" -> threefry32_next32(st)
         [] kind = "uint64" -> threefry32_next64(st)
         [] OTHER           -> threefry32_next_double(st)
  ELSE IF c = MT_Name
  THEN CASE kind = "uint32" -> mt19937_next32(st)
         [] kind = "uint64" -> mt19937_next64(st)
         [] OTHER           -> mt19937_next_double(st)
  ELSE CASE kind = "uint32" -> { xoshiro256starstar_next32(st) }
         [] kind = "uint64" -> { xoshiro256starstar_next64(st) }
         [] OTHER           -> LET r == xoshiro256starstar_next64(st)
                               IN  { [st |-> r.st, out |-> DoubleOf64(r.out)] }

\* The function slot next_raw: the 32-bit draw of ThreeFry32 and MT19937
\* widened to 64 bits, the 64-bit draw of Xoshiro256StarStar.
next_raw(c, st) == NextDraw(c, st, IF c = XO_Name THEN "uint64" ELSE "uint32")

\* seed() of class c; counter and key are ThreeFry32's.
SeedOf(c, st, seed, counter, key, ent) ==
  IF c = TF_Name THEN TF_seed(st, seed, counter, key, ent)
  ELSE IF c = MT_Name THEN MT_seed(st, seed, ent)
  ELSE XO_seed(st, seed, ent)

StateOf(c, st) ==
  IF c = TF_Name THEN TF_state(st)
  ELSE IF c = MT_Name THEN MT_state(st)
  ELSE XO_state(st)

SetStateOf(c, st, value) ==
  IF c = TF_Name THEN TF_set_state(st, value)
  ELSE IF c = MT_Name THEN MT_set_state(st, value)
  ELSE XO_set_state(st, value)

\* ------------------------------------------------------------ inputs offered
\* Values past the end of each argument's range stand for every invalid one.
SeedInputs ==
  { None, PyInt(1), PyInt(2), PyList(<< 1 >>), PyArray(<< 1 >>), PyList(<< 1, 2 >>),
    PyInt(-1), PyInt(M64), PyList(<< 1, M32 >>), PyList(<< 1, M64 \div 2 >>) }
CounterInputs(c) ==
  IF c = TF_Name THEN { None, PyInt(M32 - 1), PyInt(M128) } ELSE { None }
KeyInputs(c) ==
  IF c = TF_Name THEN { None, PyInt(M32 + 1), PyInt(-1) } ELSE { None }
DeltaInputs ==
  { PyInt(0), PyInt(1), PyInt(M64), PyInt(M128 - 4), PyInt(M128 - 1), PyInt(-1), PyInt(M128) }
IterInputs == { -1, 0, 1, 2 }

\* The inputs of the runs that compare the outputs of two handles: valid
\* seeds, one jump and one advance.
RunSeedInputs == { PyInt(1), PyInt(2) }
RunCounterInputs(c) == IF c = TF_Name THEN { None, PyInt(M32 - 1) } ELSE { None }
RunKeyInputs(c) == { None }
RunIterInputs == { 1 }
RunDeltaInputs == { PyInt(1) }

Truncate(q) == SubSeq(q, 1, 2)
Spoil(q) == [q EXCEPT ![2] = -1]

\* Values offered to a setter, built on a snapshot `base` of the same class:
\* the snapshot itself, one with another or no tag, a value that is no dict,
\* legacy tuples, and snapshots with a field missing, an array too short, an
\* item that does not convert, or a position out of range.
CommonSnapshots(base) ==
  { base, [base EXCEPT !.kind = "other"] }
  \cup { [base EXCEPT !.brng = b] : b \in (Classes \ {base.brng}) \cup {""} }
  \cup { [base EXCEPT !.kind = "tuple", !.brng = b, !.tlen = n] :
           b \in {"MT19937", "legacy"}, n \in {2, 3} }
  \cup { [base EXCEPT !.has = base.has \ {f}] : f \in base.has }

TF_Snapshots(base) ==
  CommonSnapshots(base)
  \cup { [base EXCEPT !.counter = Truncate(base.counter)],
         [base EXCEPT !.key = Truncate(base.key)],
         [base EXCEPT !.buffer = Truncate(base.buffer)],
         [base EXCEPT !.counter = Spoil(base.counter)],
         [base EXCEPT !.buffer = Spoil(base.buffer)] }
  \cup { [base EXCEPT !.buffer_pos = p] : p \in {-1, 2, THREEFRY_BUFFER_SIZE + 1} }

XO_Snapshots(base) ==
  CommonSnapshots(base)
  \cup { [base EXCEPT !.s = Truncate(base.s)],
         [base EXCEPT !.s = Spoil(base.s)],
         [base EXCEPT !.uinteger = M32],
         [base EXCEPT !.has_uint32 = 2],
         [base EXCEPT !.has_uint32 = -1] }

MT_Snapshots(base) ==
  CommonSnapshots(base)
  \cup { [base EXCEPT !.key = Truncate(base.key)],
         [base EXCEPT !.key = Spoil(base.key)] }
  \cup { [base EXCEPT !.pos = p] : p \in {-1, 1, MT_N + 1} }

SnapshotInputs(c, base) ==
  IF c = TF_Name THEN TF_Snapshots(base)
  ELSE IF c = MT_Name THEN MT_Snapshots(base)
  ELSE XO_Snapshots(base)

\* ------------------------------------------------- legacy/distributions-boxmuller
\* A double that next_double returns is its numerator k, standing for
\* k / DoubleSteps.  2.0 * u - 1.0 is then (2k - DoubleSteps) / DoubleSteps and
\* is kept as its numerator too.
Uniforms == 0..(DoubleSteps - 1)
Centered(u) == 2 * u - DoubleSteps

\* The doubles the sampler returns and caches: 0.0, and the product f * x
\* with f = sqrt(-2.0 * log(r2) / r2), kept as the pair (r2, x) of numerators.
Zero == [r2 |-> 0, x |-> 0]
Times_f(r2, x) == IF x = 0 THEN Zero ELSE [r2 |-> r2, x |-> x]

\* aug_brng_t: the cache of the sampler; the generator it draws from is any
\* generator, its next_double values being given as the stream `us`.
FreshAug == [has_gauss |-> FALSE, gauss |-> Zero]

\* The loop test of legacy_gauss: r2 >= 1.0 || r2 == 0.0.
PolarRejects(x1, x2) ==
  LET r2 == x1 * x1 + x2 * x2
  IN  r2 >= DoubleSteps * DoubleSteps \/ r2 = 0

\* The do-while loop of legacy_gauss from item i of the stream: the accepted
\* pair and the number of uniforms used, or done = FALSE when the stream
\* ends before a pair is accepted.
RECURSIVE PolarLoop(_, _)
PolarLoop(us, i) ==
  IF i + 1 > Len(us) THEN [done |-> FALSE, x1 |-> 0, x2 |-> 0, used |-> i - 1]
  ELSE LET x1 == Centered(us[i])
           x2 == Centered(us[i + 1])
       IN  IF PolarRejects(x1, x2) THEN PolarLoop(us, i + 2)
           ELSE [done |-> TRUE, x1 |-> x1, x2 |-> x2, used |-> i + 1]

\* A legacy_gauss that returns f * x1 and keeps f * x2.
legacy_gauss_swapped(aug_state, us) ==
  IF aug_state.has_gauss
  THEN [done |-> TRUE, aug |-> [has_gauss |-> FALSE, gauss |-> Zero],
        ret |-> aug_state.gauss, used |-> 0]
  ELSE LET p  == PolarLoop(us, 1)
           r2 == p.x1 * p.x1 + p.x2 * p.x2
       IN  [done |-> p.done,
            aug  |-> [has_gauss |-> TRUE, gauss |-> Times_f(r2, p.x2)],
            ret  |-> Times_f(r2, p.x1), used |-> p.used]

\* legacy_gauss(aug_state), the generator yielding the doubles us: the state
\* left, the value returned and the number of doubles drawn.
legacy_gauss(aug_state, us) ==
  IF aug_state.has_gauss
  THEN [done |-> TRUE, aug |-> [has_gauss |-> FALSE, gauss |-> Zero],
        ret |-> aug_state.gauss, used |-> 0]
  ELSE LET p  == PolarLoop(us, 1)
           r2 == p.x1 * p.x1 + p.x2 * p.x2
       IN  [done |-> p.done,
            aug  |-> [has_gauss |-> TRUE, gauss |-> Times_f(r2, p.x1)],
            ret  |-> Times_f(r2, p.x2), used |-> p.used]

\* The streams of at most n pairs that keep the loop running up to their
\* last pair.
RECURSIVE LoopStreams(_)
LoopStreams(n) ==
  IF n = 0 THEN { << >> }
  ELSE { << >> } \cup
       UNION { { << a, b >> \o r : r \in { q \in LoopStreams(n - 1) :
                                             q = << >> \/ PolarRejects(Centered(a), Centered(b)) } } :
               a \in Uniforms, b \in Uniforms }

\* ------------------------------------------- the other legacy samplers
\* A double given as a parameter: the rational n / d (d > 0), or NaN.  Every
\* comparison with NaN is false, as in C.
Rat(n, d) == [nan |-> FALSE, n |-> n, d |-> d]
NaN == [nan |-> TRUE, n |-> 0, d |-> 1]
IsEq(x, y) == ~x.nan /\ ~y.nan /\ x.n * y.d = y.n * x.d
IsLt(x, y) == ~x.nan /\ ~y.nan /\ x.n * y.d < y.n * x.d
IsLe(x, y) == ~x.nan /\ ~y.nan /\ x.n * y.d <= y.n * x.d
Plus(x, y) == [nan |-> x.nan \/ y.nan, n |-> x.n * y.d + y.n * x.d, d |-> x.d * y.d]
Minus(x, y) == Plus(x, [y EXCEPT !.n = -y.n])
Halved(x) == [x EXCEPT !.d = 2 * x.d]
DblOf(u) == Rat(u, DoubleSteps)

\* The value a sampler returns, kept as the name of the formula and the
\* values it is computed from.
Val(f, x) == [f |-> f, x |-> x]
ZeroVal == Val("0.0", << >>)
NaNVal == Val("nan", << >>)

\* One thing a sampler did with the generator: a call of legacy_double
\* ("double", n = 1), a call of legacy_gauss ("gauss", n the doubles it
\* drew, 0 when it returned the cached deviate), a call of random_poisson
\* ("poisson", n the doubles it drew).
Event(e, n) == [e |-> e, n |-> n]

\* A sampler call on the doubles us from item i on: what it leaves and
\* returns, the item it would read next, and what it did in order.  done is
\* FALSE when the doubles ran out before the call returned.
Outcome(aug_state, ret, next, ev) ==
  [done |-> TRUE, aug |-> aug_state, ret |-> ret, next |-> next, ev |-> ev]
RanOut(aug_state, next, ev) ==
  [done |-> FALSE, aug |-> aug_state, ret |-> ZeroVal, next |-> next, ev |-> ev]

\* legacy_gauss from item i of the doubles.
GaussAt(aug_state, us, i, ev) ==
  LET g == legacy_gauss(aug_state, SubSeq(us, i, Len(us)))
  IN  [done |-> g.done, aug |-> g.aug, ret |-> g.ret, next |-> i + g.used,
       ev |-> Append(ev, Event("gauss", g.used))]

\* legacy_standard_exponential: -log(1.0 - legacy_double).
legacy_standard_exponential(aug_state, us, i, ev) ==
  IF i > Len(us) THEN RanOut(aug_state, i, ev)
  ELSE Outcome(aug_state, Val("-log(1-u)", << us[i] >>), i + 1,
               Append(ev, Event("double", 1)))

\* A legacy_weibull that draws before it looks at a.
legacy_weibull_draws_first(aug_state, a, us, i, ev) ==
  LET r == legacy_standard_exponential(aug_state, us, i, ev)
  IN  IF IsEq(a, Rat(0, 1)) THEN [r EXCEPT !.ret = ZeroVal]
      ELSE [r EXCEPT !.ret = Val("pow(E,1/a)", << r.ret, a >>)]

\* legacy_weibull(aug_state, a).
legacy_weibull(aug_state, a, us, i, ev) ==
  IF IsEq(a, Rat(0, 1)) THEN Outcome(aug_state, ZeroVal, i, ev)
  ELSE LET r == legacy_standard_exponential(aug_state, us, i, ev)
       IN  [r EXCEPT !.ret = Val("pow(E,1/a)", << r.ret, a >>)]

\* The results the test X <= V (or X <= V + Y) of the shape < 1 loop can
\* have.  The test compares powers and logarithms, which are not computed
\* here: it may go either way, except that U = 0 in the first branch gives
\* X = 0 <= V.
SmallAccepts(shape, U) ==
  IF IsLe(DblOf(U), Minus(Rat(1, 1), shape)) /\ U = 0 /\ IsLt(Rat(0, 1), shape)
  THEN { TRUE }
  ELSE BOOLEAN

\* A shape < 1 trial that draws V before U.
RECURSIVE GammaSmall_V_first(_, _, _, _, _)
GammaSmall_V_first(aug_state, shape, us, i, ev) ==
  IF i + 1 > Len(us) THEN { RanOut(aug_state, i, ev) }
  ELSE LET U == us[i + 1]
           V == legacy_standard_exponential(aug_state, us, i, ev)
           e == Append(V.ev, Event("double", 1))
       IN  UNION { IF acc
                   THEN { [V EXCEPT !.ret = Val("gamma<1", << shape, U, V.ret >>),
                                    !.next = i + 2, !.ev = e] }
                   ELSE GammaSmall_V_first(aug_state, shape, us, i + 2, e) :
                   acc \in SmallAccepts(shape, U) }

\* The shape < 1 loop of legacy_standard_gamma from item i: the outcomes.
RECURSIVE GammaSmall(_, _, _, _, _)
GammaSmall(aug_state, shape, us, i, ev) ==
  IF i + 1 > Len(us) THEN { RanOut(aug_state, i, ev) }
  ELSE LET U == us[i]
           V == legacy_standard_exponential(aug_state, us, i + 1,
                                            Append(ev, Event("double", 1)))
       IN  UNION { IF acc
                   THEN { [V EXCEPT !.ret = Val("gamma<1", << shape, U, V.ret >>)] }
                   ELSE GammaSmall(aug_state, shape, us, V.next, V.ev) :
                   acc \in SmallAccepts(shape, U) }

\* The results the test V <= 0.0 of the shape > 1 loop can have, V being
\* 1.0 + c * X: false for X >= 0 (c > 0) and for a NaN shape (V is NaN);
\* for X < 0 it depends on a square root and a logarithm, not computed here.
VNotPositive(shape, X) ==
  IF shape.nan \/ X.x >= 0 THEN { FALSE } ELSE BOOLEAN

\* The do-while of the shape > 1 loop: legacy_gauss until V > 0.
RECURSIVE GammaGauss(_, _, _, _, _)
GammaGauss(aug_state, shape, us, i, ev) ==
  LET g == GaussAt(aug_state, us, i, ev)
  IN  IF ~g.done THEN { RanOut(aug_state, i, ev) }
      ELSE UNION { IF again THEN GammaGauss(g.aug, shape, us, g.next, g.ev)
                   ELSE { g } :
                   again \in VNotPositive(shape, g.ret) }

\* The results the two tests on U of the shape > 1 loop can have together:
\* X = 0 passes the first (U < 1.0); otherwise they depend on X^4 and on
\* logarithms, not computed here.
SqueezeAccepts(shape, X) ==
  IF X.x = 0 THEN { TRUE } ELSE BOOLEAN

\* The shape > 1 loop of legacy_standard_gamma from item i: the outcomes.
RECURSIVE GammaLarge(_, _, _, _, _)
GammaLarge(aug_state, shape, us, i, ev) ==
  UNION { IF ~g.done \/ g.next > Len(us) THEN { RanOut(g.aug, g.next, g.ev) }
          ELSE LET e == Append(g.ev, Event("double", 1))
               IN  UNION { IF acc
                           THEN { Outcome(g.aug, Val("gamma>1", << shape, g.ret >>),
                                          g.next + 1, e) }
                           ELSE GammaLarge(g.aug, shape, us, g.next + 1, e) :
                           acc \in SqueezeAccepts(shape, g.ret) } :
          g \in GammaGauss(aug_state, shape, us, i, ev) }

\* legacy_standard_gamma(aug_state, shape) from item i: the outcomes.
legacy_standard_gamma(aug_state, shape, us, i, ev) ==
  IF IsEq(shape, Rat(1, 1)) THEN { legacy_standard_exponential(aug_state, us, i, ev) }
  ELSE IF IsEq(shape, Rat(0, 1)) THEN { Outcome(aug_state, ZeroVal, i, ev) }
  ELSE IF IsLt(shape, Rat(1, 1)) THEN GammaSmall(aug_state, shape, us, i, ev)
  ELSE GammaLarge(aug_state, shape, us, i, ev)

\* legacy_chisquare(aug_state, df): 2.0 * legacy_standard_gamma(df / 2.0).
legacy_chisquare(aug_state, df, us, i, ev) ==
  { [r EXCEPT !.ret = Val("2*G", << r.ret >>)] :
      r \in legacy_standard_gamma(aug_state, Halved(df), us, i, ev) }

\* pow(u, 1.0 / a) of a double u for a = 1 and a = 1/2, where it is rational.
PowInvKnown(a) == IsEq(a, Rat(1, 1)) \/ IsEq(a, Rat(1, 2))
PowInv(u, a) ==
  IF IsEq(a, Rat(1, 1)) THEN DblOf(u) ELSE Rat(u * u, DoubleSteps * DoubleSteps)

\* The results the tests (X + Y) <= 1.0 and X + Y > 0 of Johnk's loop can
\* have: [in, pos].  They are computed when both powers are rational.
JohnkTests(a, b, U, V) ==
  IF PowInvKnown(a) /\ PowInvKnown(b)
  THEN LET sum == Plus(PowInv(U, a), PowInv(V, b))
       IN  { [in |-> IsLe(sum, Rat(1, 1)), pos |-> IsLt(Rat(0, 1), sum)] }
  ELSE [in : BOOLEAN, pos : BOOLEAN]

\* Johnk's loop of legacy_beta from item i: the outcomes.
RECURSIVE BetaJohnk(_, _, _, _, _, _)
BetaJohnk(aug_state, a, b, us, i, ev) ==
  IF i + 1 > Len(us) THEN { RanOut(aug_state, i, ev) }
  ELSE LET U == us[i]
           V == us[i + 1]
           e == ev \o << Event("double", 1), Event("double", 1) >>
       IN  UNION { IF t.in
                   THEN { Outcome(aug_state,
                                  Val(IF t.pos THEN "X/(X+Y)" ELSE "exp(logX-log(exp(logX)+exp(logY)))",
                                      << a, b, U, V >>),
                                  i + 2, e) }
                   ELSE BetaJohnk(aug_state, a, b, us, i + 2, e) :
                   t \in JohnkTests(a, b, U, V) }

\* The gamma branch of legacy_beta with first shape p, then shape q; the
\* value is Ga / (Ga + Gb) with Ga the gamma of a.
BetaGammas(aug_state, p, q, a_first, us, i, ev) ==
  UNION { IF ~g1.done THEN { g1 }
          ELSE { [g2 EXCEPT !.ret = IF a_first THEN Val("Ga/(Ga+Gb)", << g1.ret, g2.ret >>)
                                    ELSE Val("Ga/(Ga+Gb)", << g2.ret, g1.ret >>)] :
                   g2 \in legacy_standard_gamma(g1.aug, q, us, g1.next, g1.ev) } :
          g1 \in legacy_standard_gamma(aug_state, p, us, i, ev) }

\* A legacy_beta that evaluates legacy_standard_gamma(b) before
\* legacy_standard_gamma(a).
legacy_beta_b_first(aug_state, a, b, us, i, ev) ==
  IF IsLe(a, Rat(1, 1)) /\ IsLe(b, Rat(1, 1)) THEN BetaJohnk(aug_state, a, b, us, i, ev)
  ELSE BetaGammas(aug_state, b, a, FALSE, us, i, ev)

\* legacy_beta(aug_state, a, b) from item i: the outcomes.
legacy_beta(aug_state, a, b, us, i, ev) ==
  IF IsLe(a, Rat(1, 1)) /\ IsLe(b, Rat(1, 1)) THEN BetaJohnk(aug_state, a, b, us, i, ev)
  ELSE BetaGammas(aug_state, a, b, TRUE, us, i, ev)

\* random_poisson(basicrng, lam): it is given the generator, not the
\* aug_brng_t, draws some doubles from it and returns a count.
random_poisson(aug_state, lam, us, i, ev) ==
  { Outcome(aug_state, k, i + m, Append(ev, Event("poisson", m))) :
      m \in { d \in 0..MaxPoisson : i + d - 1 <= Len(us) }, k \in 0..MaxPoisson }

\* The two branches of legacy_noncentral_chisquare for nonc # 0.
NoncentralDraws(aug_state, df, nonc, us, i, ev) ==
  IF IsLt(Rat(1, 1), df)
  THEN UNION { IF ~c.done THEN { c }
               ELSE LET g == GaussAt(c.aug, us, c.next, c.ev)
                    IN  \* n = gauss + sqrt(nonc) is NaN for a NaN nonc
                        { [g EXCEPT !.ret = IF nonc.nan THEN NaNVal
                                            ELSE Val("Chi2+n*n", << c.ret, g.ret, nonc >>)] } :
               c \in legacy_chisquare(aug_state, Minus(df, Rat(1, 1)), us, i, ev) }
  ELSE UNION { { [c EXCEPT !.ret = IF nonc.nan THEN NaNVal ELSE c.ret] :
                   c \in legacy_chisquare(aug_state, Plus(df, Rat(2 * p.ret, 1)),
                                          us, p.next, p.ev) } :
               p \in random_poisson(aug_state, Halved(nonc), us, i, ev) }

\* A legacy_noncentral_chisquare that tests for a NaN nonc before it draws.
legacy_noncentral_chisquare_nan_first(aug_state, df, nonc, us, i, ev) ==
  IF nonc.nan THEN { Outcome(aug_state, NaNVal, i, ev) }
  ELSE IF IsEq(nonc, Rat(0, 1)) THEN legacy_chisquare(aug_state, df, us, i, ev)
  ELSE NoncentralDraws(aug_state, df, nonc, us, i, ev)

\* legacy_noncentral_chisquare(aug_state, df, nonc) from item i: the outcomes.
legacy_noncentral_chisquare(aug_state, df, nonc, us, i, ev) ==
  IF IsEq(nonc, Rat(0, 1)) THEN legacy_chisquare(aug_state, df, us, i, ev)
  ELSE NoncentralDraws(aug_state, df, nonc, us, i, ev)

\* The doubles the samplers are run on: the least, the next and the greatest
\* that next_double returns.
DistUniforms == { 0, 1, DoubleSteps - 1 }

\* The sequences of at most n of these doubles.
RECURSIVE DistStreams(_)
DistStreams(n) ==
  IF n = 0 THEN { << >> }
  ELSE LET shorter == DistStreams(n - 1)
       IN  shorter \cup { << u >> \o q : u \in DistUniforms, q \in { r \in shorter : Len(r) = n - 1 } }

\* The parameters the samplers are called with.
WeibullInputs == { Rat(0, 1), Rat(1, 1), Rat(-1, 2), NaN }
ShapeInputs == { Rat(0, 1), Rat(1, 2), Rat(1, 1), Rat(3, 2), NaN }
BetaInputs == { << Rat(1, 2), Rat(1, 1) >>, << Rat(1, 1), Rat(1, 1) >>,
                << Rat(1, 1), Rat(2, 1) >>, << Rat(2, 1), Rat(1, 2) >>,
                << NaN, Rat(1, 1) >> }
NoncentralInputs == { << df, nonc >> : df \in { Rat(1, 1), Rat(4, 1) },
                                       nonc \in { Rat(0, 1), Rat(1, 1), NaN } }
AllDistStreams == DistStreams(MaxDraws)

\* ----------------------------------------------------------------- the state
Handles == {1, 2}
Other(h) == 3 - h

\* A malloc that gives every handle the same block.
rng_state_shared(h) == 1

\* The memory that malloc gives to the __init__ of handle h for its rng_state
\* (and, in ThreeFry32, its counter and key): a block of its own, named by
\* the handle.
rng_state(h) == h

VARIABLES
  cls,    \* the class of the two handles
  hs,     \* hs[rng_state(h)]: the rng_state of handle h
  log,    \* log[h]: the arguments of the last seeding of h and the draws since
  twin,   \* the draws of both handles since one was restored from the other
  last,   \* the operation examined: its arguments, the state before it, its error
  steps,  \* number of operations so far
  aug,    \* the aug_brng_t of the legacy sampler
  lcall,  \* the last legacy call: the state before it, the doubles it drew, its result
  lock,   \* lock[h]: the lock attribute of handle h and the consumer holding it
  raw     \* the random_raw calls of the consumers and the slot calls made beside them

vars == << cls, hs, log, twin, last, steps, aug, lcall, lock, raw >>

\* The memory malloc returns to __init__, before seed() fills it.
Blank(c) ==
  IF c = TF_Name
  THEN [ctr |-> << 0, 0, 0, 0 >>, key |-> << 0, 0, 0, 0 >>,
        buffer |-> << 0, 0, 0, 0 >>, buffer_pos |-> 0]
  ELSE IF c = MT_Name
  THEN [key |-> [i \in 1..MT_N |-> 0], pos |-> 0]
  ELSE [s |-> << 0, 0, 0, 0 >>, has_uint32 |-> 0, uinteger |-> 0]

NoEntropy == [primary |-> TRUE, fallback |-> TRUE, e |-> 1]
NoValue == [kind |-> "none"]
NoArgs == [seed |-> None, counter |-> None, key |-> None]

NoOp(c) ==
  [op |-> "init", h |-> 1, err |-> "none", pre |-> Blank(c), seed |-> None,
   counter |-> None, key |-> None, ent |-> NoEntropy, n |-> 0, kind |-> "",
   out |-> 0, value |-> NoValue]

\* The log of a handle just seeded with `args`.  known is FALSE once the state
\* no longer comes from that seeding and the recorded draws alone.
FreshLog(args, known) ==
  [args |-> args, known |-> known, calls |-> << >>, outs |-> << >>]

\* The cache of the width adapter holds something: words left in the
\* ThreeFry32 buffer, a half-word kept by Xoshiro256StarStar.
CacheEmpty(c, st) ==
  IF c = TF_Name THEN st.buffer_pos = THREEFRY_BUFFER_SIZE
  ELSE IF c = XO_Name THEN st.has_uint32 = 0
  ELSE st.pos = MT_N

NoTwin == [on |-> FALSE, partial |-> FALSE, calls |-> << << >>, << >> >>,
           outs |-> << << >>, << >> >>]

NoCall == [op |-> "none", pre |-> FreshAug, us |-> << >>, ret |-> Zero,
           a |-> << >>, ev |-> << >>]

\* The lock attribute of a handle: the Lock object it names (NoLockObj when
\* the handle has no such attribute) and the consumer that holds it (0: free).
NoLockObj == 0
Consumers == {1, 2}

\* self.lock = Lock() in the __init__ of ThreeFry32 and Xoshiro256StarStar,
\* each call making a new object; MT19937.__init__ has no such statement and
\* the class declares no lock attribute.
NewLock(c, h) ==
  [obj |-> IF c = MT_Name THEN NoLockObj ELSE h, holder |-> 0]

\* No random_raw call has begun and no slot was called beside them.
NoRawCall == [pc |-> "idle", h |-> 1, n |-> 0, outs |-> << >>]
NoRaw == [call |-> [c \in Consumers |-> NoRawCall], slot |-> [h \in Handles |-> FALSE]]

InitSeeds == { PyInt(1), PyInt(2) }

\* The handle constructed last among those whose rng_state is the block a.
LastOwner(a) ==
  LET owners == { h \in Handles : rng_state(h) = a }
  IN  IF owners = {} THEN 0 ELSE CHOOSE h \in owners : \A g \in owners : g <= h

\* __init__(seed): both handles are constructed from a seed, handle 1 first;
\* each seeds the block malloc gave it.
Init ==
  /\ cls \in Classes
  /\ \E s1 \in { PyInt(1) }, s2 \in InitSeeds :
       /\ hs = [a \in Handles |->
                  IF LastOwner(a) = 0 THEN Blank(cls)
                  ELSE SeedOf(cls, Blank(cls), IF LastOwner(a) = 1 THEN s1 ELSE s2,
                              None, None, NoEntropy).st]
       /\ log = [h \in Handles |->
                  FreshLog([NoArgs EXCEPT !.seed = IF h = 1 THEN s1 ELSE s2], TRUE)]
  /\ twin = NoTwin
  /\ last = NoOp(cls)
  /\ steps = 0
  /\ aug = FreshAug
  /\ lcall = NoCall
  /\ lock = [h \in Handles |-> NewLock(cls, h)]
  /\ raw = NoRaw

UsesEntropy(seed, key) == seed = None /\ key = None

\* `last` is a history variable.  It records at most one operation of a
\* behaviour, the one that is examined, and no operation follows a recorded
\* one: every operation from every reachable state is recorded in some
\* behaviour, the operations before it being left unrecorded.  The runs that
\* keep the logs examine none and record of each operation the handle it is
\* called on.
Recorded(track, rec) ==
  \E examined \in (IF track THEN {FALSE} ELSE BOOLEAN) :
    last' = IF examined THEN rec
            ELSE IF track THEN [NoOp(cls) EXCEPT !.h = rec.h]
            ELSE NoOp(cls)

Unexamined == last.op = "init"

\* h.seed(seed, counter, key)
SeedOp(h, seeds, counters, keys, bound, track) ==
  /\ steps < bound
  /\ Unexamined
  /\ \E seed \in seeds, counter \in counters, key \in keys :
       \E ent \in (IF UsesEntropy(seed, key) THEN EntropyOutcomes ELSE {NoEntropy}) :
         LET r == SeedOf(cls, hs[rng_state(h)], seed, counter, key, ent)
         IN  /\ hs' = [hs EXCEPT ![rng_state(h)] = r.st]
             /\ log' = IF track
                       THEN [log EXCEPT ![h] =
                               IF r.err = "none" /\ ~UsesEntropy(seed, key)
                               THEN FreshLog([seed |-> seed, counter |-> counter,
                                              key |-> key], TRUE)
                               ELSE FreshLog(NoArgs, FALSE)]
                       ELSE log
             /\ twin' = NoTwin
             /\ Recorded(track,
                          [NoOp(cls) EXCEPT !.op = "seed", !.h = h, !.err = r.err,
                                            !.pre = hs[rng_state(h)], !.seed = seed,
                                            !.counter = counter, !.key = key, !.ent = ent])
  /\ steps' = steps + 1
  /\ UNCHANGED << cls, aug, lcall, lock, raw >>

\* One call of a function slot of h: next_uint32, next_uint64 or next_double.
DrawOp(h, bound, track) ==
  /\ steps < bound
  /\ Unexamined
  /\ \E kind \in DrawKinds :
       \E r \in NextDraw(cls, hs[rng_state(h)], kind) :
         /\ hs' = [hs EXCEPT ![rng_state(h)] = r.st]
         /\ log' = IF track /\ Len(log[h].calls) < MaxLog
                   THEN [log EXCEPT ![h].calls = Append(@, kind), ![h].outs = Append(@, r.out)]
                   ELSE log
         /\ twin' = IF track /\ twin.on /\ Len(twin.calls[h]) < MaxLog
                    THEN [twin EXCEPT !.calls[h] = Append(@, kind),
                                      !.outs[h] = Append(@, r.out)]
                    ELSE twin
         /\ Recorded(track,
                      [NoOp(cls) EXCEPT !.op = "draw", !.h = h, !.pre = hs[rng_state(h)],
                                        !.kind = kind, !.out = r.out])
  /\ steps' = steps + 1
  /\ UNCHANGED << cls, aug, lcall, lock, raw >>

\* h.advance(delta), which ThreeFry32 alone offers.
AdvanceOp(h, deltas, bound, track) ==
  /\ steps < bound
  /\ Unexamined
  /\ cls = TF_Name
  /\ \E delta \in deltas :
       LET r == TF_advance(hs[rng_state(h)], delta)
       IN  /\ hs' = [hs EXCEPT ![rng_state(h)] = r.st]
           /\ Recorded(track,
                        [NoOp(cls) EXCEPT !.op = "advance", !.h = h, !.err = r.err,
                                          !.pre = hs[rng_state(h)], !.n = delta.v[1]])
  /\ log' = IF track THEN [log EXCEPT ![h] = FreshLog(NoArgs, FALSE)] ELSE log
  /\ twin' = NoTwin
  /\ steps' = steps + 1
  /\ UNCHANGED << cls, aug, lcall, lock, raw >>

JumpOf(c, st, iter) == IF c = TF_Name THEN TF_jump(st, iter) ELSE XO_jump(st, iter)

\* h.jump(iter) of ThreeFry32 and Xoshiro256StarStar.
JumpOp(h, iters, bound, track) ==
  /\ steps < bound
  /\ Unexamined
  /\ cls \in {TF_Name, XO_Name}
  /\ \E iter \in iters :
       LET r == JumpOf(cls, hs[rng_state(h)], iter)
       IN  /\ hs' = [hs EXCEPT ![rng_state(h)] = r.st]
           /\ Recorded(track,
                        [NoOp(cls) EXCEPT !.op = "jump", !.h = h, !.err = r.err,
                                          !.pre = hs[rng_state(h)], !.n = iter])
  /\ log' = IF track THEN [log EXCEPT ![h] = FreshLog(NoArgs, FALSE)] ELSE log
  /\ twin' = NoTwin
  /\ steps' = steps + 1
  /\ UNCHANGED << cls, aug, lcall, lock, raw >>

\* h.state = value
SetStateOp(h, values, bound, track) ==
  /\ steps < bound
  /\ Unexamined
  /\ \E value \in values :
       LET r == SetStateOf(cls, hs[rng_state(h)], value)
       IN  /\ hs' = [hs EXCEPT ![rng_state(h)] = r.st]
           /\ log' = IF track THEN [log EXCEPT ![h] = FreshLog(NoArgs, FALSE)] ELSE log
           /\ twin' = IF track /\ r.err = "none" /\ value = StateOf(cls, hs[rng_state(Other(h))])
                      THEN [NoTwin EXCEPT !.on = TRUE,
                                          !.partial = ~CacheEmpty(cls, hs[rng_state(Other(h))])]
                      ELSE NoTwin
           /\ Recorded(track,
                        [NoOp(cls) EXCEPT !.op = "set_state", !.h = h, !.err = r.err,
                                          !.pre = hs[rng_state(h)], !.value = value])
  /\ steps' = steps + 1
  /\ UNCHANGED << cls, aug, lcall, lock, raw >>

\* The operations with every input, valid or not; the setter is offered the
\* values built on the other handle's snapshot.
Seed(h) == SeedOp(h, SeedInputs, CounterInputs(cls), KeyInputs(cls), MaxSteps, FALSE)
Draw(h) == DrawOp(h, MaxSteps, FALSE)
Advance(h) == AdvanceOp(h, DeltaInputs, MaxSteps, FALSE)
Jump(h) == JumpOp(h, IterInputs, MaxSteps, FALSE)
SetState(h) ==
  SetStateOp(h, SnapshotInputs(cls, StateOf(cls, hs[rng_state(Other(h))])), MaxSteps, FALSE)

Next == \E h \in Handles : Seed(h) \/ Draw(h) \/ Advance(h) \/ Jump(h) \/ SetState(h)

Spec == Init /\ [][Next]_vars

\* The runs that compare outputs: valid seedings, draws, jump and
\* h.state = other.state, the logs being kept.
RunSeed(h) ==
  SeedOp(h, RunSeedInputs, RunCounterInputs(cls), RunKeyInputs(cls), MaxRun, TRUE)
RunDraw(h) == DrawOp(h, MaxRun, TRUE)
RunJump(h) == JumpOp(h, RunIterInputs, MaxRun, TRUE)
RunAdvance(h) == AdvanceOp(h, RunDeltaInputs, MaxRun, TRUE)
RunRestore(h) == SetStateOp(h, { StateOf(cls, hs[rng_state(Other(h))]) }, MaxRun, TRUE)

RunOf(h) == RunSeed(h) \/ RunDraw(h) \/ RunJump(h) \/ RunAdvance(h) \/ RunRestore(h)

NextRun == \E h \in Handles : RunOf(h)

SpecRun == Init /\ [][NextRun]_vars

\* One call of legacy_gauss that returns, the generator yielding the doubles
\* us, all of which the call draws.  With a value in the cache the call draws
\* none.
LegacyGauss ==
  /\ steps < MaxCalls
  /\ \E us \in (IF aug.has_gauss THEN { << >> } ELSE LoopStreams(MaxPairs)) :
       LET r == legacy_gauss(aug, us)
       IN  /\ r.done
           /\ r.used = Len(us)
           /\ aug' = r.aug
           /\ lcall' = [NoCall EXCEPT !.op = "gauss", !.pre = aug, !.us = us, !.ret = r.ret]
  /\ steps' = steps + 1
  /\ UNCHANGED << cls, hs, log, twin, last, lock, raw >>

NextLegacy == LegacyGauss

\* The legacy sampler alone, on a generator that may yield any doubles.
SpecLegacy == Init /\ [][NextLegacy]_vars

\* ---------------------------------------------- the other samplers, called
\* A first legacy_gauss call that draws one pair and leaves a deviate in the
\* cache.
DistGauss ==
  /\ lcall.op = "none"
  /\ \E a \in DistUniforms, b \in DistUniforms :
       LET r == legacy_gauss(aug, << a, b >>)
       IN  /\ r.done
           /\ aug' = r.aug
           /\ lcall' = [NoCall EXCEPT !.op = "gauss", !.pre = aug, !.us = << a, b >>,
                                      !.ret = r.ret]
  /\ steps' = steps + 1
  /\ UNCHANGED << cls, hs, log, twin, last, lock, raw >>

\* The call op(a) returns, having drawn all of the doubles us: r is one of
\* its outcomes.
Returned(op, a, us, rs) ==
  /\ lcall.op \in { "none", "gauss" }
  /\ \E r \in rs :
       /\ r.done
       /\ r.next = Len(us) + 1
       /\ aug' = r.aug
       /\ lcall' = [op |-> op, pre |-> aug, us |-> us, ret |-> r.ret, a |-> a,
                    ev |-> r.ev]
  /\ steps' = steps + 1
  /\ UNCHANGED << cls, hs, log, twin, last, lock, raw >>

LegacyWeibull ==
  \E a \in WeibullInputs, us \in AllDistStreams :
    Returned("weibull", << a >>, us, { legacy_weibull(aug, a, us, 1, << >>) })

LegacyStandardGamma ==
  \E shape \in ShapeInputs, us \in AllDistStreams :
    Returned("standard_gamma", << shape >>, us,
             legacy_standard_gamma(aug, shape, us, 1, << >>))

LegacyBeta ==
  \E ab \in BetaInputs, us \in AllDistStreams :
    Returned("beta", ab, us, legacy_beta(aug, ab[1], ab[2], us, 1, << >>))

LegacyNoncentralChisquare ==
  \E dn \in NoncentralInputs, us \in AllDistStreams :
    Returned("noncentral_chisquare", dn, us,
             legacy_noncentral_chisquare(aug, dn[1], dn[2], us, 1, << >>))

NextDist ==
  \/ DistGauss
  \/ LegacyWeibull
  \/ LegacyStandardGamma
  \/ LegacyBeta
  \/ LegacyNoncentralChisquare

\* One call of a legacy sampler, from an empty cache or from the cache a
\* legacy_gauss call left, on a generator that may yield any doubles.
SpecDist == Init /\ [][NextDist]_vars

\* ------------------------------------------- legacy_gauss on a handle, by steps
\* The denominator of the doubles of next_double: 2^53 at 32-bit words.
DoubleDen(c) ==
  IF c = XO_Name THEN Pow2(Bits64 - DblShift64)
  ELSE Pow2(2 * WordBits - DblShiftA - DblShiftB)

\* The loop test of legacy_gauss on numerators over den.
PolarRejectsOver(den, x1, x2) ==
  LET r2 == x1 * x1 + x2 * x2
  IN  r2 >= den * den \/ r2 = 0

\* The snapshot `base` with the words of the generator set to zero: the s of
\* Xoshiro256StarStar, the key of MT19937 and of ThreeFry32.
ZeroedSnapshot(c, base) ==
  IF c = XO_Name THEN [base EXCEPT !.s = << 0, 0, 0, 0 >>]
  ELSE IF c = MT_Name THEN [base EXCEPT !.key = [i \in 1..MT_N |-> 0]]
  ELSE [base EXCEPT !.key = << 0, 0, 0, 0 >>]

\* Before the sampler is used, the state of its handle is set: to the
\* snapshot of the other handle, or to its own with the words zeroed.
LoopRestore ==
  /\ lcall.op = "none"
  /\ SetStateOp(1, { StateOf(cls, hs[rng_state(2)]),
                     ZeroedSnapshot(cls, StateOf(cls, hs[rng_state(1)])) }, 1, FALSE)

\* legacy_gauss(aug_state) is called, aug_state drawing from handle 1.
LoopCall ==
  /\ lcall.op # "running"
  /\ steps < MaxCalls
  /\ lcall' = [NoCall EXCEPT !.op = "running", !.pre = aug, !.ev = << Event("pass", 0) >>]
  /\ steps' = steps + 1
  /\ UNCHANGED << cls, hs, log, twin, last, aug, lock, raw >>

\* The call finds a value in the cache and returns it.
LoopCached ==
  /\ lcall.op = "running"
  /\ aug.has_gauss
  /\ aug' = [has_gauss |-> FALSE, gauss |-> Zero]
  /\ lcall' = [lcall EXCEPT !.op = "gauss", !.ret = aug.gauss, !.ev = << >>]
  /\ UNCHANGED << cls, hs, log, twin, last, steps, lock, raw >>

\* One pass of the do-while loop of legacy_gauss on a handle of class c in
\* state st: two next_double calls and the test; the outcomes [st, out, x1,
\* x2, r2], out telling that the loop goes on.
PolarPass(c, st) ==
  UNION { { LET x1 == 2 * d1.out - DoubleDen(c)
                x2 == 2 * d2.out - DoubleDen(c)
            IN  [st |-> d2.st, x1 |-> x1, x2 |-> x2, r2 |-> x1 * x1 + x2 * x2,
                 out |-> PolarRejectsOver(DoubleDen(c), x1, x2)] :
              d2 \in NextDraw(c, d1.st, "double") } :
          d1 \in NextDraw(c, st, "double") }

\* The call, the cache being empty, makes one pass of the loop and returns
\* when the test lets it.  While the call runs, ev tells whether the number
\* of passes made is odd.
LoopPass ==
  /\ lcall.op = "running"
  /\ ~aug.has_gauss
  /\ \E p \in PolarPass(cls, hs[rng_state(1)]) :
       /\ hs' = [hs EXCEPT ![rng_state(1)] = p.st]
       /\ aug' = IF p.out THEN aug
                 ELSE [has_gauss |-> TRUE, gauss |-> Times_f(p.r2, p.x1)]
       /\ lcall' = IF p.out
                   THEN [lcall EXCEPT !.ev = << Event("pass", 1 - lcall.ev[1].n) >>]
                   ELSE [lcall EXCEPT !.op = "gauss", !.ret = Times_f(p.r2, p.x2),
                                      !.ev = << >>]
  /\ UNCHANGED << cls, log, twin, last, steps, lock, raw >>

NextLoop == LoopRestore \/ LoopCall \/ LoopCached \/ LoopPass

\* The sampler on a real handle; a call that has begun goes on.
SpecLoop == Init /\ [][NextLoop]_vars /\ WF_vars(LoopCached) /\ WF_vars(LoopPass)

\* ------------------------------- the handle is changed while a deviate is cached
\* The sampler of handle 1 holds a deviate and no call of it is running.
DeviateCached == lcall.op # "running" /\ aug.has_gauss

CacheSeed ==
  /\ DeviateCached
  /\ SeedOp(1, SeedInputs, CounterInputs(cls), KeyInputs(cls), MaxCalls, FALSE)

CacheJump == DeviateCached /\ JumpOp(1, IterInputs, MaxCalls, FALSE)

CacheAdvance == DeviateCached /\ AdvanceOp(1, DeltaInputs, MaxCalls, FALSE)

CacheRestore ==
  /\ DeviateCached
  /\ SetStateOp(1, { StateOf(cls, hs[rng_state(2)]) }, MaxCalls, FALSE)

NextCache ==
  \/ LoopCall \/ LoopCached \/ LoopPass
  \/ CacheSeed \/ CacheJump \/ CacheAdvance \/ CacheRestore

\* legacy_gauss on handle 1, and between its calls seed, jump, advance and
\* the state setter on that handle.
SpecCache == Init /\ [][NextCache]_vars

\* ---------------------------------------------------------------- random_raw
\* A `with lock:` that enters without waiting for the lock to be free.
LockFree_unchecked(l) == TRUE

\* `with lock:` enters when no consumer holds the lock.
LockFree(l) == l.holder = 0

\* h.random_raw(n) is called by consumer c; ThreeFry32 and Xoshiro256StarStar
\* have the method.
RawCall(c) ==
  /\ cls \in {TF_Name, XO_Name}
  /\ raw.call[c].pc = "idle"
  /\ \E h \in Handles, n \in 1..MaxBatch :
       raw' = [raw EXCEPT !.call[c] = [pc |-> "waiting", h |-> h, n |-> n, outs |-> << >>]]
  /\ UNCHANGED << cls, hs, log, twin, last, steps, aug, lcall, lock >>

\* random_raw enters `with lock`.
RawAcquire(c) ==
  /\ raw.call[c].pc = "waiting"
  /\ LockFree(lock[raw.call[c].h])
  /\ lock' = [lock EXCEPT ![raw.call[c].h].holder = c]
  /\ raw' = [raw EXCEPT !.call[c].pc = "filling"]
  /\ UNCHANGED << cls, hs, log, twin, last, steps, aug, lcall >>

\* One pass of the loop of random_raw: randoms[i] = brng.next_raw(brng.state).
RawFill(c) ==
  LET call == raw.call[c]
  IN  /\ call.pc = "filling"
      /\ Len(call.outs) < call.n
      /\ \E r \in next_raw(cls, hs[rng_state(call.h)]) :
           /\ hs' = [hs EXCEPT ![rng_state(call.h)] = r.st]
           /\ raw' = [raw EXCEPT !.call[c].outs = Append(@, r.out)]
      /\ UNCHANGED << cls, log, twin, last, steps, aug, lcall, lock >>

\* The loop is over: random_raw leaves `with lock` and returns the array.
RawReturn(c) ==
  LET call == raw.call[c]
  IN  /\ call.pc = "filling"
      /\ Len(call.outs) = call.n
      /\ lock' = [lock EXCEPT ![call.h].holder = 0]
      /\ raw' = [raw EXCEPT !.call[c].pc = "done"]
      /\ UNCHANGED << cls, hs, log, twin, last, steps, aug, lcall >>

\* A function slot of h is called directly, through the capsule, the ctypes
\* or the cffi interface: the slot takes no lock and waits for none.
SlotCall(h) ==
  /\ steps < MaxSlots
  /\ \E kind \in DrawKinds :
       \E r \in NextDraw(cls, hs[rng_state(h)], kind) :
         hs' = [hs EXCEPT ![rng_state(h)] = r.st]
  /\ raw' = [raw EXCEPT !.slot[h] = TRUE]
  /\ steps' = steps + 1
  /\ UNCHANGED << cls, log, twin, last, aug, lcall, lock >>

RawOf(c) == RawCall(c) \/ RawAcquire(c) \/ RawFill(c) \/ RawReturn(c)

NextRaw == (\E c \in Consumers : RawOf(c)) \/ (\E h \in Handles : SlotCall(h))

\* Two consumers that call random_raw, and callers of the slots beside them.
SpecRaw == Init /\ [][NextRaw]_vars

\* ================================================================== properties
Min(a, b) == IF a < b THEN a ELSE b

\* Two records of calls and outputs agree: as far as the calls are the same,
\* the outputs are the same.
Agree(calls1, outs1, calls2, outs2) ==
  \A i \in 1..Min(Len(calls1), Len(calls2)) :
    SubSeq(calls1, 1, i) = SubSeq(calls2, 1, i)
      => SubSeq(outs1, 1, i) = SubSeq(outs2, 1, i)

\* The record is the whole history and the two histories are the same.
SameWholeHistory(calls1, calls2) ==
  calls1 = calls2 /\ Len(calls1) < MaxLog

SameSeeding(a, b) ==
  log[a].known /\ log[b].known /\ log[a].args = log[b].args

\* C1: two handles seeded with the same seed inputs, whatever their states
\* were before, return the same values for the same sequence of next_uint32 /
\* next_uint64 / next_double calls, and are in the same state after it.
C1_Reproducible ==
  \A a, b \in Handles :
    SameSeeding(a, b)
      => /\ Agree(log[a].calls, log[a].outs, log[b].calls, log[b].outs)
         /\ SameWholeHistory(log[a].calls, log[b].calls) => hs[rng_state(a)] = hs[rng_state(b)]

\* Both handles were re-seeded by seed() with a counter (the constructor gives
\* none), and both have drawn since.
C1_Witness ==
  /\ cls = TF_Name
  /\ SameSeeding(1, 2)
  /\ log[1].args.counter # None
  /\ log[1].calls = log[2].calls
  /\ Len(log[1].calls) >= 1

\* C2: after h'.state = h.state, whatever h has consumed of its buffer or
\* cached, the draws on h' return what the same draws on h return, and the
\* two states are equal after the same draws.
C2_RoundTrip ==
  twin.on
    => /\ Agree(twin.calls[1], twin.outs[1], twin.calls[2], twin.outs[2])
       /\ SameWholeHistory(twin.calls[1], twin.calls[2]) => hs[rng_state(1)] = hs[rng_state(2)]

\* The snapshot carried a partly consumed buffer or a cached half-word, and
\* both handles have drawn since.
C2_Witness ==
  /\ twin.on
  /\ twin.partial
  /\ cls \in {TF_Name, XO_Name}
  /\ twin.calls[1] = twin.calls[2]
  /\ Len(twin.calls[1]) >= 1

\* The state the examined operation left its handle in, and whether the
\* operation raised.
After == hs[rng_state(last.h)]
Raised == last.err # "none"
Given(arg) == arg # None

\* C3: whenever ThreeFry32.seed(seed, counter, key) raises, whatever the
\* arguments, key, counter, buffer and buffer_pos are what they were before
\* the call.
C3_SeedErrorsBeforeMutation ==
  (cls = TF_Name /\ last.op = "seed" /\ Raised) => After = last.pre

\* C4: set_state raises a range error when the snapshot, its tag matching the
\* receiver, carries a ThreeFry32 buffer_pos outside 0..4, an MT19937 pos
\* outside 0..624 or a Xoshiro256StarStar has_uint32 other than 0 or 1.
PositionOutOfRange(value) ==
  /\ value.kind = "dict"
  /\ value.brng = cls
  /\ IF cls = TF_Name
     THEN "buffer_pos" \in value.has
          /\ value.buffer_pos \notin 0..THREEFRY_BUFFER_SIZE
     ELSE IF cls = MT_Name
     THEN "pos" \in value.has /\ value.pos \notin 0..MT_N
     ELSE "has_uint32" \in value.has /\ value.has_uint32 \notin {0, 1}

C4_RestoreRejectsOutOfRange ==
  (last.op = "set_state" /\ PositionOutOfRange(last.value)) => Raised

\* C5: whenever set_state raises, for any reason, every field of the
\* handle's state is what it was before the call.
C5_FailedRestoreAtomic ==
  (last.op = "set_state" /\ Raised) => After = last.pre

\* C6 as stated: for each of the three generators, set_state with a value
\* that is not a dict raises the type error, set_state with a dict whose
\* 'brng' tag is absent or not the receiver's class name raises the tag
\* error, and in both cases no state field is written.
C6_Original ==
  last.op = "set_state"
    => /\ last.value.kind # "dict" => (last.err = "type" /\ After = last.pre)
       /\ (last.value.kind = "dict" /\ last.value.brng # cls)
            => (last.err = "tag" /\ After = last.pre)

\* A tuple that MT19937 does not take for a legacy state.
BadLegacyTuple(value) ==
  value.kind = "tuple" /\ (value.brng # "MT19937" \/ value.tlen \notin {3, 5})

\* C6: set_state with a value that is no dict raises the type error, save
\* that MT19937 takes a non-empty tuple for a legacy state and raises a value
\* error when its first item is not 'MT19937' or its length is not 3 or 5;
\* set_state with a dict whose 'brng' tag is absent or not the receiver's
\* class name raises the tag error; in all these cases no state field is
\* written.
C6_RejectsWithoutWriting ==
  last.op = "set_state"
    => /\ (last.value.kind # "dict" /\ ~(cls = MT_Name /\ last.value.kind = "tuple"))
            => (last.err = "type" /\ After = last.pre)
       /\ (cls = MT_Name /\ BadLegacyTuple(last.value))
            => (last.err = "legacy" /\ After = last.pre)
       /\ (last.value.kind = "dict" /\ last.value.brng # cls)
            => (last.err = "tag" /\ After = last.pre)

\* MT19937 was given a tuple that is no legacy state.
C6_Witness ==
  /\ last.op = "set_state"
  /\ cls = MT_Name
  /\ BadLegacyTuple(last.value)
  /\ last.err = "legacy"

\* C7: ThreeFry32.seed with both seed and key given raises the conflict
\* error whatever the counter is and leaves key, counter, buffer and
\* buffer_pos unchanged; with exactly one of them given it never raises that
\* error.
C7_SeedKeyConflict ==
  (cls = TF_Name /\ last.op = "seed")
    => /\ (Given(last.seed) /\ Given(last.key))
            => (last.err = "conflict" /\ After = last.pre)
       /\ (Given(last.seed) # Given(last.key)) => last.err # "conflict"

\* seed(seed, counter, key) with all three given, the counter out of range.
C7_Witness ==
  /\ cls = TF_Name
  /\ last.op = "seed"
  /\ Given(last.seed) /\ Given(last.key)
  /\ last.counter = PyInt(M128)
  /\ last.err = "conflict"

Resets == {"seed", "advance", "jump"}

\* C8 as stated: after any seed, advance, jump or state-restore that
\* returns, the cache is empty: has_uint32 = 0, buffer_pos = 4.
C8_Original ==
  (cls \in {TF_Name, XO_Name} /\ last.op \in Resets \cup {"set_state"} /\ ~Raised)
    => CacheEmpty(cls, After)

\* The cache the snapshot carries.
CacheOf(c, st) ==
  IF c = TF_Name THEN << st.buffer_pos >> ELSE << st.has_uint32, st.uinteger >>
CacheIn(c, value) ==
  IF c = TF_Name THEN << value.buffer_pos >> ELSE << value.has_uint32, value.uinteger >>

\* C8: after a seed, advance or jump that returns, the cache is empty
\* (has_uint32 = 0, buffer_pos = 4) whatever it held before; a state-restore
\* that returns leaves the handle with the cache the snapshot carries.
C8_CacheInvalidation ==
  (cls \in {TF_Name, XO_Name} /\ ~Raised)
    => /\ last.op \in Resets => CacheEmpty(cls, After)
       /\ last.op = "set_state" => CacheOf(cls, After) = CacheIn(cls, last.value)

\* A seed, advance or jump of a handle whose cache held something.
C8_Witness ==
  /\ cls \in {TF_Name, XO_Name}
  /\ last.op \in Resets
  /\ ~Raised
  /\ ~CacheEmpty(cls, last.pre)

\* The state seed(s, counter, key) gives from the state before the examined
\* operation, s being the item of the one-element seed the operation was given.
ScalarSeeded ==
  SeedOf(cls, last.pre, PyInt(last.seed.v[1]), last.counter, last.key, last.ent).st

OneElementSeed ==
  last.op = "seed" /\ last.seed.t \in {"list", "array"} /\ Len(last.seed.v) = 1

\* C9 as stated: for every class, seeding with the one-element [s], list or
\* array, gives the state that seeding with the scalar s gives.
C9_Original ==
  (OneElementSeed /\ ~Raised) => After = ScalarSeeded

\* C9: seeding ThreeFry32 or Xoshiro256StarStar with the one-element [s],
\* list or array, and seeding MT19937 with the one-element array [s], gives
\* the state that seeding with the scalar s gives.
C9_SingleElementSeed ==
  (OneElementSeed /\ ~Raised /\ (cls # MT_Name \/ last.seed.t = "array"))
    => After = ScalarSeeded

\* MT19937 seeded with a one-element array from a state another seed made.
C9_Witness ==
  /\ OneElementSeed
  /\ ~Raised
  /\ cls = MT_Name
  /\ last.seed.t = "array"
  /\ After # last.pre

\* advance(2^64) applied k times.
RECURSIVE AdvanceTimes(_, _)
AdvanceTimes(st, k) ==
  IF k <= 0 THEN st
  ELSE LET r == TF_advance(st, PyInt(M64))
       IN  IF r.st.buffer_pos >= 0 THEN AdvanceTimes(r.st, k - 1) ELSE st

\* C10 as stated: the state after a jump(k) that ThreeFry32 accepts is the
\* state after advance(k * 2^64) and the state after k times advance(2^64),
\* which for k = 0 is the state before.
C10_Original ==
  (cls = TF_Name /\ last.op = "jump" /\ ~Raised)
    => /\ After = TF_advance(last.pre, PyInt(last.n * M64)).st
       /\ After = AdvanceTimes(last.pre, last.n)

\* C10: the state after a jump(k) that ThreeFry32 accepts is the state after
\* advance(k * 2^64); for k >= 1 it is the state after k times advance(2^64),
\* and for k = 0 it is the state before with the buffer discarded.
C10_JumpIsAdvance ==
  (cls = TF_Name /\ last.op = "jump" /\ ~Raised)
    => /\ After = TF_advance(last.pre, PyInt(last.n * M64)).st
       /\ last.n >= 1 => After = AdvanceTimes(last.pre, last.n)
       /\ last.n = 0 => After = TF_reset_state_variables(last.pre)

\* jump(2) of a handle whose buffer is partly consumed.
C10_Witness ==
  /\ cls = TF_Name
  /\ last.op = "jump"
  /\ ~Raised
  /\ last.n = 2
  /\ last.pre.buffer_pos < THREEFRY_BUFFER_SIZE

\* jump(1) called k times.
RECURSIVE JumpOneTimes(_, _)
JumpOneTimes(st, k) ==
  IF k <= 0 THEN st
  ELSE LET r == XO_jump(st, 1)
       IN  IF r.st.has_uint32 >= 0 THEN JumpOneTimes(r.st, k - 1) ELSE st

\* C11 as stated: the state (s, has_uint32, uinteger) after
\* Xoshiro256StarStar.jump(k), k >= 0, is the state after k calls of jump(1),
\* which for k = 0 is the state before.
C11_Original ==
  (cls = XO_Name /\ last.op = "jump" /\ last.n >= 0)
    => After = JumpOneTimes(last.pre, last.n)

\* C11: the state after Xoshiro256StarStar.jump(k), k >= 1, is the state
\* after k calls of jump(1); jump(0) leaves s[0..3] as they are and clears
\* the cached half-word (has_uint32 = 0, uinteger = 0).
C11_JumpIsRepeatedJump ==
  (cls = XO_Name /\ last.op = "jump")
    => /\ last.n >= 1 => After = JumpOneTimes(last.pre, last.n)
       /\ last.n = 0 => After = XO_reset_state_variables(last.pre)

\* jump(2) of a handle that holds a cached half-word.
C11_Witness ==
  /\ cls = XO_Name
  /\ last.op = "jump"
  /\ last.n = 2
  /\ last.pre.has_uint32 = 1
  /\ After.s # JumpOneTimes(last.pre, 1).s

\* The deltas advance accepts, as integers.
ValidDeltas == { d.v[1] : d \in { x \in DeltaInputs : int_to_array(x).err = "none" } }

Advanced(st, n) == TF_advance(st, PyInt(n)).st

\* C12: advance(a) followed by advance(b), a and b in 0..2^128-1, leaves the
\* state (counter, buffer, buffer_pos and key) that advance((a + b) mod 2^128)
\* leaves, also when a + b >= 2^128, and the state that advance(b) followed
\* by advance(a) leaves.
C12_AdvanceAdditive ==
  (cls = TF_Name /\ last.op = "advance" /\ ~Raised)
    => \A b \in ValidDeltas :
         /\ Advanced(After, b) = Advanced(last.pre, (last.n + b) % M128)
         /\ Advanced(After, b) = Advanced(Advanced(last.pre, b), last.n)

\* advance(2^128 - 1) of a handle whose buffer is partly consumed: with
\* b = 1 and b = 2^128 - 1 the sum passes 2^128.
C12_Witness ==
  /\ cls = TF_Name
  /\ last.op = "advance"
  /\ ~Raised
  /\ last.n = M128 - 1
  /\ last.pre.buffer_pos < THREEFRY_BUFFER_SIZE
  /\ {1, M128 - 1} \subseteq ValidDeltas
  /\ After.ctr # last.pre.ctr

\* The state after n calls of next_uint32 whose results are discarded: the
\* first n \div 2 of them, then the others.
RECURSIVE DrawTimes(_, _)
DrawTimes(st, n) ==
  IF n <= 0 THEN st
  ELSE IF n = 1 THEN (CHOOSE x \in threefry32_next32(st) : TRUE).st
  ELSE LET half == DrawTimes(st, n \div 2)
       IN  IF half.buffer_pos >= 0 THEN DrawTimes(half, n - n \div 2) ELSE st

\* The two states give the same outputs from here on: same key, counter and
\* position, same words left in the buffer.
SameFuture(st1, st2) ==
  /\ st1.key = st2.key
  /\ st1.ctr = st2.ctr
  /\ st1.buffer_pos = st2.buffer_pos
  /\ \A i \in 1..THREEFRY_BUFFER_SIZE :
       i > st1.buffer_pos => st1.buffer[i] = st2.buffer[i]

\* The state with the words left in the buffer thrown away.
Exhausted(st) == [st EXCEPT !.buffer_pos = THREEFRY_BUFFER_SIZE]

\* Largest move of the counter, in blocks, that is compared with draws: one
\* jump of the counter of four words of two bits.
MaxBlocks == 16

\* The number of blocks the examined advance or jump moves the counter by.
BlocksMoved == IF last.op = "jump" THEN last.n * M64 ELSE last.n

MovedBlocks ==
  /\ cls = TF_Name
  /\ last.op \in {"advance", "jump"}
  /\ ~Raised
  /\ BlocksMoved \in 0..MaxBlocks

FirstHalfDrawn ==
  /\ cls = XO_Name
  /\ last.op = "draw"
  /\ last.kind = "uint32"
  /\ last.pre.has_uint32 = 0

\* C14: on a Xoshiro256StarStar handle with no cached half-word, two
\* successive next_uint32 calls return the low then the high 32 bits of the
\* one 64-bit output w the generator gives from that state; has_uint32 goes
\* 0, 1, 0 and the four state words advance once, at the first call.
C14_HalvesOfOneOutput ==
  FirstHalfDrawn
    => LET w == xoshiro256starstar_next64(last.pre)
       IN  /\ last.out = w.out % M32
           /\ After.has_uint32 = 1
           /\ After.s = w.st.s
           /\ \A second \in NextDraw(cls, After, "uint32") :
                /\ second.out = w.out \div M32
                /\ second.st.has_uint32 = 0
                /\ second.st.s = w.st.s

\* The two halves returned differ and the state words moved.
C14_Witness ==
  /\ FirstHalfDrawn
  /\ After.s # last.pre.s
  /\ \E second \in NextDraw(cls, After, "uint32") : second.out # last.out

\* The examined operation is a next_uint64 of a 32-bit generator.
Drawn64From32 ==
  /\ cls \in {TF_Name, MT_Name}
  /\ last.op = "draw"
  /\ last.kind = "uint64"

\* The position of the state is one the generator itself can reach, so that
\* the word a draw reads is in the buffer or the key.
PositionInRange(c, st) ==
  IF c = TF_Name THEN st.buffer_pos \in 0..THREEFRY_BUFFER_SIZE
  ELSE IF c = MT_Name THEN st.pos \in 0..MT_N
  ELSE st.has_uint32 \in {0, 1}

\* C15: on MT19937 and ThreeFry32 one next_uint64 call makes two 32-bit
\* draws a then b and returns a * 2^32 + b, leaving the state two
\* next_uint32 calls leave; a copy of the handle that calls next_uint32
\* twice gets a and b.
C15_TwoDrawsHighFirst ==
  Drawn64From32
    => /\ \E r1 \in NextDraw(cls, last.pre, "uint32") :
            \E r2 \in NextDraw(cls, r1.st, "uint32") :
              last.out = r1.out * M32 + r2.out /\ After = r2.st
       /\ PositionInRange(cls, last.pre)
            => \A r1 \in NextDraw(cls, last.pre, "uint32") :
                 \A r2 \in NextDraw(cls, r1.st, "uint32") :
                   last.out = r1.out * M32 + r2.out /\ After = r2.st

\* The two words differ, so that the order shows in the result.
C15_Witness ==
  /\ Drawn64From32
  /\ PositionInRange(cls, last.pre)
  /\ last.out \div M32 # last.out % M32

\* The pairs of the doubles a call drew.
PairsOf(us) == { i \in 1..Len(us) : i % 2 = 1 }

\* C16: from has_gauss = false, legacy_gauss draws doubles in pairs until the
\* first pair with 0 < r2 < 1, returns f * x2, stores f * x1 and sets
\* has_gauss; the next call returns the stored value, draws no double, and
\* leaves has_gauss = false and the cache 0.
C16_GaussCache ==
  lcall.op = "gauss"
    => IF lcall.pre.has_gauss
       THEN /\ lcall.ret = lcall.pre.gauss
            /\ lcall.us = << >>
            /\ aug = [has_gauss |-> FALSE, gauss |-> Zero]
       ELSE LET n  == Len(lcall.us)
                x1 == Centered(lcall.us[n - 1])
                x2 == Centered(lcall.us[n])
                r2 == x1 * x1 + x2 * x2
            IN  /\ n >= 2 /\ n % 2 = 0
                /\ \A i \in PairsOf(lcall.us) :
                     LET y1 == Centered(lcall.us[i])
                         y2 == Centered(lcall.us[i + 1])
                         q2 == y1 * y1 + y2 * y2
                     IN  (0 < q2 /\ q2 < DoubleSteps * DoubleSteps) <=> (i = n - 1)
                /\ lcall.ret = Times_f(r2, x2)
                /\ aug = [has_gauss |-> TRUE, gauss |-> Times_f(r2, x1)]

\* The second call: it returns a stored value that is not 0.
C16_Witness ==
  /\ lcall.op = "gauss"
  /\ lcall.pre.has_gauss
  /\ lcall.ret # Zero
  /\ steps = 2

\* A seed argument inside the range of MT19937: every item in 0..2^32-1.
InSeedRange(seed) == \A i \in 1..Len(seed.v) : seed.v[i] \in 0..(M32 - 1)

\* C17: MT19937.seed with a scalar outside 0..2^32-1, or with an array that
\* has an item outside 0..2^32-1, raises the range error and leaves key and
\* pos as they were; every scalar and every array inside the range is
\* accepted.
C17_SeedRange ==
  (cls = MT_Name /\ last.op = "seed" /\ Given(last.seed))
    => IF InSeedRange(last.seed)
       THEN ~Raised
       ELSE last.err = "range" /\ After = last.pre

\* The next n calls of next_uint32, one after the other: the word each
\* returns and the state it leaves.
RECURSIVE Draws(_, _)
Draws(st, n) ==
  IF n <= 0 THEN << >>
  ELSE LET r == CHOOSE x \in threefry32_next32(st) : TRUE
       IN  << r >> \o Draws(r.st, n - 1)

\* The first n words of the draws t.
OutsOf(t, n) == [i \in 1..n |-> t[i].out]

CounterOf(n) == << n, 0, 0, 0 >>

\* The examined operation seeded a ThreeFry32 handle with counter 0.
SeededAtZero ==
  /\ cls = TF_Name
  /\ last.op = "seed"
  /\ ~Raised
  /\ After.ctr = CounterOf(0)

CounterWords(n) == int_to_array(PyInt(n)).words

\* The examined operation is advance(n) of a ThreeFry32 handle whose counter
\* was 0.
AdvancedFromZero(n) ==
  /\ cls = TF_Name
  /\ last.op = "advance"
  /\ ~Raised
  /\ last.n = n
  /\ last.pre.ctr = CounterOf(0)

RECURSIVE RunAlone(_, _, _)
RunAlone(c, st, calls) ==
  IF calls = << >> THEN [st |-> st, outs |-> << >>]
  ELSE LET r == CHOOSE d \in NextDraw(c, st, Head(calls)) : TRUE
           rest == RunAlone(c, r.st, Tail(calls))
       IN  [st |-> rest.st, outs |-> << r.out >> \o rest.outs]

Alone(c, args, calls) ==
  RunAlone(c, SeedOf(c, Blank(c), args.seed, args.counter, args.key, NoEntropy).st, calls)

\* The handle's outputs since its seeding are those it yields alone, whatever
\* the other handle was given meanwhile, and so is its state.
AsAlone(h) ==
  log[h].known =>
    LET alone == Alone(cls, log[h].args, log[h].calls)
    IN  /\ log[h].outs = alone.outs
        /\ Len(log[h].calls) < MaxLog => hs[rng_state(h)] = alone.st

\* The step is an operation on handle h.
CalledOn(h) == steps' # steps /\ last'.h = h

\* The step leaves the rng_state of the handle other than h as it was.
OtherUntouched(h) == hs'[rng_state(Other(h))] = hs[rng_state(Other(h))]

\* C20: every handle owns its state: no operation on one handle (seed, draw,
\* jump, advance, restore from the other handle's snapshot) changes a field of
\* the other, also when both were made from the same seed or one was restored
\* from the other; and however the operations on the two are interleaved, each
\* handle yields the outputs it yields alone.
C20_Independent ==
  /\ [](\A h \in Handles : AsAlone(h))
  /\ [][\A h \in Handles : CalledOn(h) => OtherUntouched(h)]_vars

\* Both handles were made from the same seed and were drawn from in turn,
\* differently, and are in different states.
C20_Witness ==
  /\ log[1].known /\ log[2].known
  /\ log[1].args = log[2].args
  /\ Len(log[1].calls) = MaxLog /\ Len(log[2].calls) = 1
  /\ log[1].calls[1] # log[2].calls[1]
  /\ hs[rng_state(1)] # hs[rng_state(2)]

\* ------------------------------------------------------------------------ C21
\* The handle has a lock attribute naming a Lock object.
HasLock(h) == lock[h].obj # NoLockObj

\* C21: every handle of every class (MT19937, ThreeFry32,
\* Xoshiro256StarStar) carries one lock, made when the handle is constructed,
\* and no seed, jump, advance or set_state replaces it by another object.
C21_OneLockPerHandle ==
  /\ [](\A h \in Handles : HasLock(h))
  /\ [][\A h \in Handles : lock'[h].obj = lock[h].obj]_vars

\* ------------------------------------------------------------------------ C22
\* The first n outputs of next_raw of handle h, from its construction.
RawStream(h, n) ==
  Alone(cls, log[h].args, [i \in 1..n |-> IF cls = XO_Name THEN "uint64" ELSE "uint32"]).outs

\* The batches of the two consumers, both on handle h on which no slot was
\* called directly: one after the other, in one order or the other, they are
\* the first outputs of the handle's stream.
BatchesInTurn(h) ==
  LET a == raw.call[1].outs
      b == raw.call[2].outs
  IN  (raw.call[1].h = h /\ raw.call[2].h = h /\ ~raw.slot[h])
        => LET stream == RawStream(h, Len(a) + Len(b))
           IN  a \o b = stream \/ b \o a = stream

\* The step is a direct call of a function slot.
SlotStep == raw'.slot # raw.slot \/ steps' # steps

\* C22: two consumers that call random_raw(n) on one ThreeFry32 or
\* Xoshiro256StarStar handle each draw their batch under the handle's lock:
\* each receives n consecutive outputs of the handle's stream, and the two
\* batches together are its first 2n outputs, none lost and none drawn twice;
\* a function slot called directly neither takes nor waits for the lock.
C22_BatchesNotInterleaved ==
  /\ [](\A h \in Handles : BatchesInTurn(h))
  /\ [][SlotStep => lock' = lock]_vars

\* Both consumers have returned from random_raw(MaxBatch) on the same handle,
\* and a slot of the other handle was called directly.
C22_Witness ==
  /\ raw.call[1].pc = "done" /\ raw.call[2].pc = "done"
  /\ raw.call[1].h = raw.call[2].h
  /\ raw.call[1].n = MaxBatch /\ raw.call[2].n = MaxBatch
  /\ ~raw.slot[raw.call[1].h]
  /\ raw.slot[Other(raw.call[1].h)]
  /\ raw.call[1].outs # raw.call[2].outs

\* ------------------------------------------------------------------------ C23
\* C23: every rejection loop of the legacy samplers ends: a call of
\* legacy_gauss (and so of the samplers built on it) eventually returns a
\* value, for the stream of doubles its handle delivers.
C23_LoopsReturn == (lcall.op = "running") ~> (lcall.op = "gauss")

\* C24: in every reachable state, after any sequence of seed, advance, jump,
\* state assignment and draw, buffer_pos of a ThreeFry32 handle is in
\* 0..THREEFRY_BUFFER_SIZE and pos of an MT19937 handle is in 0..MT_N.
C24_PositionsInRange ==
  \A h \in Handles :
    /\ cls = TF_Name => hs[rng_state(h)].buffer_pos \in 0..THREEFRY_BUFFER_SIZE
    /\ cls = MT_Name => hs[rng_state(h)].pos \in 0..MT_N

\* The call examined drew every double of us: the outcome r of a sampler is
\* the one the call had.
SameCall(r) ==
  /\ r.done
  /\ r.next = Len(lcall.us) + 1
  /\ r.ev = lcall.ev
  /\ r.aug = aug

\* C25: legacy_noncentral_chisquare tests nonc == 0 first (a single
\* chisquare(df)), then df > 1 (chisquare(df - 1), then one legacy_gauss),
\* and otherwise calls random_poisson and then chisquare(df + 2 i); with a
\* NaN nonc it returns NaN after the draws a nonc that is not NaN makes, so
\* that the doubles drawn and the cache left are those of such a call.
C25_NoncentralBranches ==
  lcall.op = "noncentral_chisquare" =>
    LET df   == lcall.a[1]
        nonc == lcall.a[2]
        pre  == lcall.pre
        us   == lcall.us
    IN  /\ IsEq(nonc, Rat(0, 1)) =>
             \E c \in legacy_chisquare(pre, df, us, 1, << >>) :
               SameCall(c) /\ lcall.ret = c.ret
        /\ ~IsEq(nonc, Rat(0, 1)) /\ IsLt(Rat(1, 1), df) =>
             \E c \in legacy_chisquare(pre, Minus(df, Rat(1, 1)), us, 1, << >>) :
               /\ c.done
               /\ SameCall(GaussAt(c.aug, us, c.next, c.ev))
        /\ ~IsEq(nonc, Rat(0, 1)) /\ ~IsLt(Rat(1, 1), df) =>
             /\ lcall.ev # << >>
             /\ lcall.ev[1].e = "poisson"
             /\ \E k \in 0..MaxPoisson :
                  \E c \in legacy_chisquare(pre, Plus(df, Rat(2 * k, 1)), us,
                                            lcall.ev[1].n + 1, << lcall.ev[1] >>) :
                    SameCall(c) /\ (~nonc.nan => lcall.ret = c.ret)
        /\ nonc.nan =>
             /\ lcall.ret = NaNVal
             /\ \E r \in legacy_noncentral_chisquare(pre, df, Rat(1, 1), us, 1, << >>) :
                  SameCall(r)

\* A NaN nonc with df <= 1, the cache holding a deviate: random_poisson drew
\* a double before the gamma did.
C25_Witness ==
  /\ lcall.op = "noncentral_chisquare"
  /\ lcall.a[2].nan
  /\ IsEq(lcall.a[1], Rat(1, 1))
  /\ lcall.pre.has_gauss
  /\ lcall.ev[1] = Event("poisson", 1)
  /\ Len(lcall.us) >= 3
  /\ lcall.ret = NaNVal

\* The numbers of doubles drawn by the legacy_gauss calls of a call, in order.
RECURSIVE GaussNs(_)
GaussNs(ev) ==
  IF ev = << >> THEN << >>
  ELSE IF Head(ev).e = "gauss" THEN << Head(ev).n >> \o GaussNs(Tail(ev))
  ELSE GaussNs(Tail(ev))

\* Every event of the call is one legacy_double.
AllDoubles(ev, n) == Len(ev) = n /\ \A j \in 1..n : ev[j] = Event("double", 1)

\* C26: legacy_standard_gamma draws exactly one uniform for shape == 1 and
\* nothing for shape == 0, returning 0; for shape < 1 every trial draws the
\* uniform U and then the uniform of the exponential V; for shape > 1 every
\* trial calls legacy_gauss until 1 + c X > 0 and then draws one uniform, a
\* cached deviate being used by the first legacy_gauss call and a deviate
\* cached by one call being returned by the next.
C26_GammaDrawOrder ==
  lcall.op = "standard_gamma" =>
    LET shape == lcall.a[1]
        pre   == lcall.pre
        us    == lcall.us
        ev    == lcall.ev
        n     == Len(us)
        ns    == GaussNs(ev)
    IN  /\ IsEq(shape, Rat(1, 1)) => n = 1 /\ AllDoubles(ev, 1) /\ aug = pre
        /\ IsEq(shape, Rat(0, 1)) => n = 0 /\ ev = << >> /\ lcall.ret = ZeroVal /\ aug = pre
        /\ IsLt(shape, Rat(1, 1)) /\ ~IsEq(shape, Rat(0, 1)) =>
             /\ n >= 2 /\ n % 2 = 0
             /\ AllDoubles(ev, n)
             /\ aug = pre
             /\ lcall.ret = Val("gamma<1", << shape, us[n - 1], Val("-log(1-u)", << us[n] >>) >>)
        /\ IsLt(Rat(1, 1), shape) =>
             /\ ev # << >>
             /\ ev[1].e = "gauss"
             /\ ev[Len(ev)] = Event("double", 1)
             /\ \A j \in 1..Len(ev) :
                  /\ ev[j].e \in { "gauss", "double" }
                  /\ ev[j].e = "double" => ev[j].n = 1 /\ j > 1 /\ ev[j - 1].e = "gauss"
             /\ \A j \in 1..Len(ns) :
                  (ns[j] = 0) <=> (IF j = 1 THEN pre.has_gauss ELSE ns[j - 1] > 0)
             /\ aug.has_gauss <=> (ns[Len(ns)] > 0)

\* Shape 3/2 from an empty cache: the first trial draws a pair for its
\* deviate and is rejected, the second uses the deviate the first one cached.
C26_Witness ==
  /\ lcall.op = "standard_gamma"
  /\ IsLt(Rat(1, 1), lcall.a[1])
  /\ lcall.ev = << Event("gauss", 2), Event("double", 1),
                   Event("gauss", 0), Event("double", 1) >>

\* The trials of Johnk's loop on the doubles us are all rejected up to the
\* last one, which is not.
JohnkRunsTo(a, b, us) ==
  /\ Len(us) >= 2 /\ Len(us) % 2 = 0
  /\ \A j \in 1..(Len(us) \div 2) :
       \A t \in JohnkTests(a, b, us[2 * j - 1], us[2 * j]) :
         t.in <=> (2 * j = Len(us))

\* C27: for a <= 1 and b <= 1 legacy_beta draws two uniforms per trial, U
\* then V, until X + Y <= 1, takes the logarithms only when X + Y is not
\* above 0, and leaves the cache alone; otherwise it evaluates
\* legacy_standard_gamma(a) completely before legacy_standard_gamma(b) and
\* returns Ga / (Ga + Gb).
C27_BetaDrawOrder ==
  lcall.op = "beta" =>
    LET a   == lcall.a[1]
        b   == lcall.a[2]
        pre == lcall.pre
        us  == lcall.us
        n   == Len(us)
    IN  IF IsLe(a, Rat(1, 1)) /\ IsLe(b, Rat(1, 1))
        THEN /\ JohnkRunsTo(a, b, us)
             /\ AllDoubles(lcall.ev, n)
             /\ aug = pre
             /\ lcall.ret.x = << a, b, us[n - 1], us[n] >>
             /\ (lcall.ret.f = "X/(X+Y)") <=> (us[n - 1] > 0 \/ us[n] > 0)
        ELSE \E ga \in legacy_standard_gamma(pre, a, us, 1, << >>) :
               /\ ga.done
               /\ \E gb \in legacy_standard_gamma(ga.aug, b, us, ga.next, ga.ev) :
                    /\ SameCall(gb)
                    /\ lcall.ret = Val("Ga/(Ga+Gb)", << ga.ret, gb.ret >>)

\* a = 1, b = 2 from an empty cache: the exponential of Ga takes the first
\* double, the deviate and the uniform of Gb the three after it.
C27_Witness ==
  /\ lcall.op = "beta"
  /\ IsEq(lcall.a[1], Rat(1, 1)) /\ IsEq(lcall.a[2], Rat(2, 1))
  /\ lcall.ev = << Event("double", 1), Event("gauss", 2), Event("double", 1) >>
  /\ lcall.us[1] # lcall.us[4]

\* C28: legacy_weibull with a == 0 returns 0 without drawing and without
\* changing has_gauss or gauss; with any other a it draws exactly one
\* uniform.
C28_WeibullDraws ==
  lcall.op = "weibull" =>
    IF IsEq(lcall.a[1], Rat(0, 1))
    THEN lcall.us = << >> /\ lcall.ev = << >> /\ lcall.ret = ZeroVal /\ aug = lcall.pre
    ELSE Len(lcall.us) = 1 /\ AllDoubles(lcall.ev, 1)

\* a == 0 with a deviate in the cache.
C28_Witness ==
  /\ lcall.op = "weibull"
  /\ IsEq(lcall.a[1], Rat(0, 1))
  /\ lcall.pre.has_gauss
  /\ aug.has_gauss

DrawnDouble == last.op = "draw" /\ last.kind = "double"

\* C29: next_double returns a double in [0, 1): its numerator is below the
\* denominator (2^53 at 32-bit words), being u >> 11 of one 64-bit output on
\* Xoshiro256StarStar and (a >> 5) * 2^26 + (b >> 6) of two 32-bit outputs a
\* then b on MT19937 and ThreeFry32; the call leaves the state that one
\* 64-bit output, or two 32-bit draws, leave.
C29_DoubleInUnitInterval ==
  DrawnDouble =>
    /\ last.out \in 0..(DoubleDen(cls) - 1)
    /\ IF cls = XO_Name
       THEN LET r == xoshiro256starstar_next64(last.pre)
            IN  last.out = Shr(r.out, DblShift64) /\ After = r.st
       ELSE \E r1 \in NextDraw(cls, last.pre, "uint32") :
              \E r2 \in NextDraw(cls, r1.st, "uint32") :
                /\ last.out = Shr(r1.out, DblShiftA) * Pow2(WordBits - DblShiftB)
                                + Shr(r2.out, DblShiftB)
                /\ After = r2.st

\* A double of MT19937 or ThreeFry32 whose two words differ and are not zero.
C29_Witness ==
  /\ DrawnDouble
  /\ cls \in { MT_Name, TF_Name }
  /\ PositionInRange(cls, last.pre)
  /\ last.out \div M32 # last.out % M32
  /\ last.out \div M32 # 0
  /\ last.out % M32 # 0

SeededFromEntropy == last.op = "seed" /\ UsesEntropy(last.seed, last.key)

\* The state st of class c is the one seeding from the entropy words leaves.
HoldsWords(c, st, words) ==
  IF c = TF_Name THEN st.key = << words[1], words[2], words[3], words[4] >>
  ELSE IF c = XO_Name THEN st.s = View64(words)
  ELSE st = mt19937_seed(words[1])

EntropyCount(c) == IF c = TF_Name THEN 4 ELSE IF c = XO_Name THEN 8 ELSE 1

\* C30: seed(None) asks the primary entropy source first and seeds from it;
\* when it fails it asks the fallback and seeds from that; the entropy error
\* reaches the caller only when the fallback fails too, and the state of the
\* handle is then what it was.
C30_EntropyFallback ==
  SeededFromEntropy =>
    LET ent == last.ent
        n   == EntropyCount(cls)
    IN  /\ (last.err = "entropy") <=> (~ent.primary /\ ~ent.fallback)
        /\ last.err = "entropy" => After = last.pre
        /\ last.err = "none" /\ ent.primary => HoldsWords(cls, After, PrimaryWords(ent, n))
        /\ last.err = "none" /\ ~ent.primary => HoldsWords(cls, After, FallbackWords(ent, n))

\* The primary source fails and the handle is seeded from the fallback.
C30_Witness ==
  /\ SeededFromEntropy
  /\ ~last.ent.primary /\ last.ent.fallback
  /\ last.err = "none"
  /\ After # last.pre
  /\ HoldsWords(cls, After, FallbackWords(last.ent, EntropyCount(cls)))

\* The state of a handle that __init__ has just constructed with the
\* arguments of the examined seed call.
NewlySeeded ==
  SeedOf(cls, Blank(cls), last.seed, last.counter, last.key, last.ent).st

SeedReturned == cls \in {TF_Name, XO_Name} /\ last.op = "seed" /\ ~Raised

\* C31: on ThreeFry32 and Xoshiro256StarStar a seed call that returns leaves,
\* whatever the state before it, the state of a newly constructed handle
\* given the same arguments; ThreeFry32.seed without a counter leaves the
\* counter 0, the buffer zeroed and buffer_pos = 4, and Xoshiro256StarStar.seed
\* leaves has_uint32 = 0 and uinteger = 0.
C31_ReseedErasesHistory ==
  SeedReturned =>
    /\ After = NewlySeeded
    /\ cls = TF_Name =>
         /\ After.buffer = << 0, 0, 0, 0 >>
         /\ After.buffer_pos = THREEFRY_BUFFER_SIZE
         /\ last.counter = None => After.ctr = << 0, 0, 0, 0 >>
    /\ cls = XO_Name => After.has_uint32 = 0 /\ After.uinteger = 0

\* A seed given to a handle that differs from a new one in every field the
\* claim names: words left in the cache, and on ThreeFry32 a counter that has
\* moved.
C31_Witness ==
  /\ SeedReturned
  /\ last.seed # None
  /\ last.counter = None
  /\ ~CacheEmpty(cls, last.pre)
  /\ last.pre # After
  /\ cls = TF_Name => last.pre.ctr # << 0, 0, 0, 0 >>
  /\ cls = XO_Name => last.pre.uinteger # 0

\* The examined call is Xoshiro256StarStar.jump(iter) with iter <= 0.
EmptyJump == cls = XO_Name /\ last.op = "jump" /\ last.n <= 0

\* What next_uint32 returns from the state before the call, and from the one
\* after it.
Next32Before == xoshiro256starstar_next32(last.pre).out
Next32After == xoshiro256starstar_next32(After).out

\* C32 as stated: after jump(iter) with iter <= 0 a handle that held a cached
\* half-word returns another next_uint32 than it would have without the call.
C32_Original ==
  (EmptyJump /\ last.pre.has_uint32 = 1) => Next32After # Next32Before

\* C32: Xoshiro256StarStar.jump(iter) with iter <= 0 raises nothing, leaves
\* s[0..3] as they were and clears has_uint32 and uinteger; the next_uint32
\* after it is the low half of the next 64-bit word of s, where without the
\* call it would have been the cached half-word.
C32_EmptyJumpClearsCache ==
  EmptyJump =>
    /\ ~Raised
    /\ After.s = last.pre.s
    /\ After.has_uint32 = 0 /\ After.uinteger = 0
    /\ Next32After = xoshiro256starstar_next64(last.pre).out % M32
    /\ last.pre.has_uint32 # 0 => Next32Before = last.pre.uinteger

\* jump(0) on a handle holding a half-word that differs from the low half of
\* the next word: the call changes what next_uint32 returns.
C32_Witness ==
  /\ EmptyJump
  /\ last.n = 0
  /\ last.pre.has_uint32 = 1
  /\ Next32After # Next32Before

\* The examined call is next_uint64 or next_double on Xoshiro256StarStar.
WideDrawn == cls = XO_Name /\ last.op = "draw" /\ last.kind \in {"uint64", "double"}

\* C33: on Xoshiro256StarStar next_uint64 and next_double leave has_uint32
\* and uinteger as they were and return what they would return with an empty
\* cache; in the sequence next_uint32, next_uint64, next_uint32 the last call
\* returns the high half of the word the first call consumed and consumes no
\* word itself.
C33_WideDrawsKeepHalfWord ==
  /\ WideDrawn =>
       /\ After.has_uint32 = last.pre.has_uint32
       /\ After.uinteger = last.pre.uinteger
       /\ After.s = xoshiro256starstar_next64(last.pre).st.s
       /\ \E r \in NextDraw(cls, XO_reset_state_variables(last.pre), last.kind) :
            r.out = last.out
  /\ FirstHalfDrawn =>
       LET w == xoshiro256starstar_next64(last.pre)
       IN  \A mid \in NextDraw(cls, After, "uint64") :
             /\ mid.out = xoshiro256starstar_next64(w.st).out
             /\ \A third \in NextDraw(cls, mid.st, "uint32") :
                  /\ third.out = w.out \div M32
                  /\ third.st.s = mid.st.s
                  /\ third.st.has_uint32 = 0

\* A next_uint64 on a handle holding a half-word that is neither half of the
\* word next_uint64 returns: the next_uint32 after it returns that half-word.
C33_Witness ==
  /\ WideDrawn
  /\ last.kind = "uint64"
  /\ last.pre.has_uint32 = 1
  /\ last.pre.uinteger \notin {last.out % M32, last.out \div M32}
  /\ xoshiro256starstar_next32(After).out = last.pre.uinteger

GaussFields == {"has_gauss", "gauss"}

\* A step of seed, jump, advance or the state setter: the operations that
\* write `last`.
HandleStep == last' # last

\* C34: the snapshot that state() returns has no field for the cached
\* deviate; seed, jump, advance and the state setter leave has_gauss and gauss
\* of the augmented state as they were; and a legacy_gauss call that begins
\* with a deviate cached returns that deviate, drawing nothing, so the deviate
\* cached before a re-seed or restore is the one the first call after it
\* returns.
C34_GaussCacheOutsideHandle ==
  /\ [](\A h \in Handles : StateOf(cls, hs[rng_state(h)]).has \cap GaussFields = {})
  /\ [][HandleStep => aug' = aug /\ lcall' = lcall]_vars
  /\ [][(lcall.op # "running" /\ lcall'.op = "running") => lcall'.pre = aug]_vars
  /\ [][(lcall.op = "running" /\ lcall.pre.has_gauss)
          => /\ lcall'.op = "gauss"
             /\ lcall'.ret = lcall.pre.gauss
             /\ hs' = hs]_vars

\* A deviate was cached, the handle was then re-seeded or restored, which
\* changed its state, and the call after that returned the deviate.
C34_Witness ==
  /\ last.op \in {"seed", "set_state"}
  /\ ~Raised
  /\ After # last.pre
  /\ After = hs[rng_state(1)]
  /\ lcall.op = "gauss"
  /\ lcall.pre.has_gauss
  /\ lcall.ret = lcall.pre.gauss
  /\ lcall.ret # Zero

====
